---------------------------- MODULE Spec2Model ----------------------------
(***************************************************************************)
(* Transcript comparison tool (compare.py): the text canonicalisation      *)
(* pipeline (clean_text, map_expanded_to_contraction,                      *)
(* split_compound_words) and the alignment engine (compare_texts, built    *)
(* on difflib.SequenceMatcher with its default autojunk heuristic).        *)
(*                                                                         *)
(* A text is a sequence of characters; a character is a one-character      *)
(* string, or the name of a code point ("U+2019") for the non-ASCII ones.  *)
(***************************************************************************)
EXTENDS Integers, Sequences, FiniteSets, TLC

VARIABLES
    pc,        \* position in main(), or in the call sequence of a function under test
    file1,     \* content of the first selected document, as read_file returns it
    file2,     \* content of the second selected document
    text1,     \* main(): local text1
    text2,     \* main(): local text2
    results,   \* main(): the dict returned by compare_texts, None before the call
    arg1,      \* function under test: first argument
    arg2,      \* function under test: second argument
    ret1,      \* function under test: value returned by the first call
    ret2,      \* function under test: value returned by the second call
    tool,      \* which tool's main() runs: "compare.py" or "visualize_comparison.py"
    reads,     \* how each of the two selected documents reads
    stages,    \* history: the stages each of the two texts has passed, in order
    exit_status, \* the status of sys.exit, None while the process runs
    disk,      \* video.py: the chunk and transcription files that exist
    chunk_files, \* video.py: the chunk files split_audio_file returned
    futures,   \* video.py: the tasks submitted to the ThreadPoolExecutor
    transcriptions, \* video.py transcribe_audio_chunks_parallel: local transcriptions
    processed_files, \* video.py main(): local processed_files
    failed_files     \* video.py main(): local failed_files

toolVars == <<tool, reads, stages, exit_status>>

videoVars == <<disk, chunk_files, futures, transcriptions, processed_files, failed_files>>

vars == <<pc, file1, file2, text1, text2, results, arg1, arg2, ret1, ret2,
          toolVars, videoVars>>

None == "None"

\* no main() of the comparison tools is running
ToolIdle == tool = None /\ reads = None /\ stages = None /\ exit_status = None

\* no function of video.py is running
VideoIdle ==
    /\ disk = None /\ chunk_files = None /\ futures = None /\ transcriptions = None
    /\ processed_files = None /\ failed_files = None

(***************************************************************************)
(* Generic helpers                                                         *)
(***************************************************************************)
Range(s) == {s[i] : i \in 1..Len(s)}

Min(a, b) == IF a <= b THEN a ELSE b

Max(a, b) == IF a >= b THEN a ELSE b

Abs(n) == IF n < 0 THEN -n ELSE n

RECURSIVE Gcd(_, _)
Gcd(a, b) == IF b = 0 THEN a ELSE Gcd(b, a % b)

\* An exact quotient n/d, d > 0, in lowest terms: the value of a Python float
\* division of two small integers, compared by ==.
Quot(n, d) ==
    LET g == Gcd(Abs(n), d)
    IN  [num |-> n \div g, den |-> d \div g]

One == [num |-> 1, den |-> 1]

Zero == [num |-> 0, den |-> 1]

RatLess(p, q) == p.num * q.den < q.num * p.den

\* ''.join(ss), halving the list
RECURSIVE Flatten(_)
Flatten(ss) ==
    IF Len(ss) = 0 THEN << >>
    ELSE IF Len(ss) = 1 THEN ss[1]
    ELSE LET h == Len(ss) \div 2
         IN  Flatten(SubSeq(ss, 1, h)) \o Flatten(SubSeq(ss, h + 1, Len(ss)))

\* sep.join(ss), halving the list
RECURSIVE Join(_, _)
Join(ss, sep) ==
    IF Len(ss) = 0 THEN << >>
    ELSE IF Len(ss) = 1 THEN ss[1]
    ELSE LET h == Len(ss) \div 2
         IN  Join(SubSeq(ss, 1, h), sep) \o sep \o Join(SubSeq(ss, h + 1, Len(ss)), sep)

(***************************************************************************)
(* Characters                                                              *)
(***************************************************************************)
LowerLetters ==
    << "a", "b", "c", "d", "e", "f", "g", "h", "i", "j", "k", "l", "m",
       "n", "o", "p", "q", "r", "s", "t", "u", "v", "w", "x", "y", "z" >>

UpperLetters ==
    << "A", "B", "C", "D", "E", "F", "G", "H", "I", "J", "K", "L", "M",
       "N", "O", "P", "Q", "R", "S", "T", "U", "V", "W", "X", "Y", "Z" >>

Digits == {"0", "1", "2", "3", "4", "5", "6", "7", "8", "9"}

\* str.split() separators
Whitespace == {" ", "\t", "\n"}

\* unicodedata.category(ch) starts with 'P'.  "U+2019" is the right single
\* quotation mark (Pf) word processors put in "don't"; "U+2026" is the
\* horizontal ellipsis (Po).
Punctuation ==
    { "'", "\"", ".", ",", ";", ":", "!", "?", "-", "_", "(", ")",
      "U+2019", "U+2026" }

\* "U+0301" is the combining acute accent (category Mn, combining class 230)
Acute == "U+0301"

\* the lowercase letters that have a precomposed form with the acute accent,
\* each with that form: "U+00E9" is e with acute
AcuteLower ==
    << << "a", "U+00E1" >>, << "c", "U+0107" >>, << "e", "U+00E9" >>, << "g", "U+01F5" >>,
       << "i", "U+00ED" >>, << "k", "U+1E31" >>, << "l", "U+013A" >>, << "m", "U+1E3F" >>,
       << "n", "U+0144" >>, << "o", "U+00F3" >>, << "p", "U+1E55" >>, << "r", "U+0155" >>,
       << "s", "U+015B" >>, << "u", "U+00FA" >>, << "w", "U+1E83" >>, << "y", "U+00FD" >>,
       << "z", "U+017A" >> >>

\* the same for the uppercase letters: "U+00C9" is E with acute
AcuteUpper ==
    << << "A", "U+00C1" >>, << "C", "U+0106" >>, << "E", "U+00C9" >>, << "G", "U+01F4" >>,
       << "I", "U+00CD" >>, << "K", "U+1E30" >>, << "L", "U+0139" >>, << "M", "U+1E3E" >>,
       << "N", "U+0143" >>, << "O", "U+00D3" >>, << "P", "U+1E54" >>, << "R", "U+0154" >>,
       << "S", "U+015A" >>, << "U", "U+00DA" >>, << "W", "U+1E82" >>, << "Y", "U+00DD" >>,
       << "Z", "U+0179" >> >>

\* canonical composition of a letter with a following acute accent
ComposedOf ==
    [ch \in {p[1] : p \in Range(AcuteLower) \cup Range(AcuteUpper)} |->
        (CHOOSE p \in Range(AcuteLower) \cup Range(AcuteUpper) : p[1] = ch)[2]]

\* canonical decomposition of a precomposed letter
DecomposedOf ==
    [ch \in {p[2] : p \in Range(AcuteLower) \cup Range(AcuteUpper)} |->
        (CHOOSE p \in Range(AcuteLower) \cup Range(AcuteUpper) : p[2] = ch)[1]]

\* str.lower() on one character
LowerOf ==
    [ch \in Range(UpperLetters) \cup {p[2] : p \in Range(AcuteUpper)} |->
        IF ch \in Range(UpperLetters)
        THEN LowerLetters[CHOOSE k \in 1..26 : UpperLetters[k] = ch]
        ELSE AcuteLower[CHOOSE k \in 1..Len(AcuteUpper) : AcuteUpper[k][2] = ch][2]]

LowerChar(ch) == IF ch \in DOMAIN LowerOf THEN LowerOf[ch] ELSE ch

\* the characters the regular expressions class as \w: letters, digits and
\* the underscore ("U+FB01", the ligature fi, is a lowercase letter; the
\* combining accent is not a word character)
WordChars ==
    Range(LowerLetters) \cup Range(UpperLetters) \cup Digits \cup {"_", "U+FB01"}
        \cup DOMAIN DecomposedOf

\* the compatibility decomposition of one character: "U+2026" (ellipsis)
\* becomes three full stops, "U+FB01" (ligature fi) "fi", a precomposed
\* letter its base letter and the accent; every other character is kept.
NFKCChar(ch) ==
    CASE ch = "U+2026" -> << ".", ".", "." >>
      [] ch = "U+FB01" -> << "f", "i" >>
      [] ch \in DOMAIN DecomposedOf -> << DecomposedOf[ch], Acute >>
      [] OTHER -> << ch >>

\* canonical composition: an accent directly after a letter that has a
\* precomposed form joins it; an accent after any other character (a
\* starter without a composition, or another accent, which blocks it) stays.
Compose(s) ==
    LET composes(i) == i < Len(s) /\ s[i + 1] = Acute /\ s[i] \in DOMAIN ComposedOf
    IN  Flatten([i \in 1..Len(s) |->
                    IF composes(i) THEN << ComposedOf[s[i]] >>
                    ELSE IF i > 1 /\ composes(i - 1) THEN << >>
                    ELSE << s[i] >>])

\* unicodedata.normalize('NFKC', s): decompose, then compose
NFKC(s) == Compose(Flatten([i \in 1..Len(s) |-> NFKCChar(s[i])]))

StripPunctuation(s) == SelectSeq(s, LAMBDA ch : ch \notin Punctuation)

Lower(s) == [i \in 1..Len(s) |-> LowerChar(s[i])]

\* compare.py normalize_word
normalize_word(word) == Lower(StripPunctuation(NFKC(word)))

\* str.split(): the maximal runs of non-whitespace characters, in order.  The
\* range lo..hi is cut at the separator nearest to its middle.
RECURSIVE SplitRange(_, _, _)
SplitRange(text, lo, hi) ==
    LET seps == {k \in lo..hi : text[k] \in Whitespace}
        mid  == (lo + hi) \div 2
    IN  IF lo > hi THEN << >>
        ELSE IF seps = {} THEN << SubSeq(text, lo, hi) >>
        ELSE LET m == CHOOSE k \in seps :
                        \A kk \in seps : Abs(k - mid) < Abs(kk - mid)
                                          \/ (Abs(k - mid) = Abs(kk - mid) /\ k <= kk)
             IN  SplitRange(text, lo, m - 1) \o SplitRange(text, m + 1, hi)

Split(text) == SplitRange(text, 1, Len(text))

(***************************************************************************)
(* difflib.SequenceMatcher(None, a, b), as compare_texts constructs it:    *)
(* isjunk is None, autojunk keeps its default True.  Indices are 0-based   *)
(* and windows half-open, as in the library; element i is a[i + 1].        *)
(***************************************************************************)
AutojunkMinLen == 200

\* __chain_b: the elements of b purged as popular
PopularElements(b) ==
    LET n == Len(b)
    IN  IF n >= AutojunkMinLen
        THEN {elt \in Range(b) :
                Cardinality({j \in 1..n : b[j] = elt}) > n \div 100 + 1}
        ELSE {}

\* __chain_b: b2j, element -> the indices of b holding it, popular ones dropped
ChainB(b) ==
    [elt \in Range(b) \ PopularElements(b) |->
        {j \in 0..(Len(b) - 1) : b[j + 1] = elt}]

\* find_longest_match, first loop.  The loop visits the rows i = alo..ahi-1 in
\* order and, in a row, the columns j of b2j[a[i]] inside blo..bhi-1 in
\* increasing order; j2len[j] is the length k of the run of such matches that
\* ends at (i, j) and stays inside the window; the best block is replaced
\* only by a strictly longer one.  So the loop ends with the first cell, in
\* (i, j) order, whose run is the longest of the window, or with the empty
\* block (alo, blo, 0) when b2j offers no match.
LongestRun(a, b2j, alo, ahi, blo, bhi) ==
    LET cells == UNION { IF a[i + 1] \in DOMAIN b2j
                         THEN {<< i, j >> : j \in {x \in b2j[a[i + 1]] : x >= blo /\ x < bhi}}
                         ELSE {} : i \in alo..(ahi - 1) }
        run(c) ==
            LET limit == IF c[1] - alo <= c[2] - blo THEN c[1] - alo + 1 ELSE c[2] - blo + 1
            IN  CHOOSE k \in 1..limit :
                    /\ (k = limit \/ << c[1] - k, c[2] - k >> \notin cells)
                    /\ \A d \in 1..(k - 1) : << c[1] - d, c[2] - d >> \in cells
        runs == [c \in cells |-> run(c)]
        bestsize == CHOOSE k \in {runs[c] : c \in cells} : \A c \in cells : runs[c] <= k
        first == CHOOSE c \in cells :
                    /\ runs[c] = bestsize
                    /\ \A d \in cells : runs[d] = bestsize =>
                            (c[1] < d[1] \/ (c[1] = d[1] /\ c[2] <= d[2]))
    IN  IF cells = {} THEN [a |-> alo, b |-> blo, size |-> 0]
        ELSE [a |-> first[1] - bestsize + 1, b |-> first[2] - bestsize + 1, size |-> bestsize]

\* find_longest_match, second loop: extend the block backwards while the
\* elements before it are equal (no element is junk, so "not isbjunk" holds)
ExtendBack(a, b, alo, blo, m) ==
    LET limit == IF m.a - alo <= m.b - blo THEN m.a - alo ELSE m.b - blo
        e == CHOOSE n \in 0..limit :
                /\ (n = limit \/ a[m.a - n] # b[m.b - n])
                /\ \A d \in 1..n : a[m.a - d + 1] = b[m.b - d + 1]
    IN  [a |-> m.a - e, b |-> m.b - e, size |-> m.size + e]

\* find_longest_match, third loop: extend the block forwards while the
\* elements after it are equal
ExtendForward(a, b, ahi, bhi, m) ==
    LET ea == m.a + m.size
        eb == m.b + m.size
        limit == IF ahi - ea <= bhi - eb THEN ahi - ea ELSE bhi - eb
        e == CHOOSE n \in 0..limit :
                /\ (n = limit \/ a[ea + n + 1] # b[eb + n + 1])
                /\ \A d \in 1..n : a[ea + d] = b[eb + d]
    IN  [m EXCEPT !.size = m.size + e]

\* find_longest_match without the two extension loops
find_longest_match_unextended(a, b, b2j, alo, ahi, blo, bhi) ==
    LongestRun(a, b2j, alo, ahi, blo, bhi)

\* find_longest_match(alo, ahi, blo, bhi); the two junk-extension loops that
\* follow in the library never run, bjunk being empty.
find_longest_match(a, b, b2j, alo, ahi, blo, bhi) ==
    LET best == LongestRun(a, b2j, alo, ahi, blo, bhi)
    IN  ExtendForward(a, b, ahi, bhi, ExtendBack(a, b, alo, blo, best))

\* BlocksIn with the window of b not advanced past the block found
RECURSIVE BlocksInWholeB(_, _, _, _, _, _, _)
BlocksInWholeB(a, b, b2j, alo, ahi, blo, bhi) ==
    UNION { IF x.size = 0 THEN {}
            ELSE {x}
                 \cup (IF alo < x.a
                       THEN BlocksInWholeB(a, b, b2j, alo, x.a, blo, bhi) ELSE {})
                 \cup (IF x.a + x.size < ahi
                       THEN BlocksInWholeB(a, b, b2j, x.a + x.size, ahi, blo, bhi)
                       ELSE {})
            : x \in {find_longest_match(a, b, b2j, alo, ahi, blo, bhi)} }

\* get_matching_blocks, the work queue: x is the longest block of the window
\* popped; when it is not empty it is recorded, and the window to its left
\* and the window to its right are queued
RECURSIVE BlocksIn(_, _, _, _, _, _, _)
BlocksIn(a, b, b2j, alo, ahi, blo, bhi) ==
    UNION { IF x.size = 0 THEN {}
            ELSE {x}
                 \cup (IF alo < x.a /\ blo < x.b
                       THEN BlocksIn(a, b, b2j, alo, x.a, blo, x.b) ELSE {})
                 \cup (IF x.a + x.size < ahi /\ x.b + x.size < bhi
                       THEN BlocksIn(a, b, b2j, x.a + x.size, ahi, x.b + x.size, bhi)
                       ELSE {})
            : x \in {find_longest_match(a, b, b2j, alo, ahi, blo, bhi)} }

\* matching_blocks.sort(): by (a, b, size)
RECURSIVE SortBlocks(_)
SortBlocks(S) ==
    IF S = {} THEN << >>
    ELSE LET m == CHOOSE x \in S :
                    \A y \in S : x.a < y.a \/ (x.a = y.a /\ x.b <= y.b)
         IN  << m >> \o SortBlocks(S \ {m})

\* get_matching_blocks, the collapse of adjacent blocks
RECURSIVE Collapse(_, _)
Collapse(blocks, cur) ==
    IF blocks = << >> THEN (IF cur.size > 0 THEN << cur >> ELSE << >>)
    ELSE LET x == Head(blocks)
         IN  IF cur.a + cur.size = x.a /\ cur.b + cur.size = x.b
             THEN Collapse(Tail(blocks), [cur EXCEPT !.size = cur.size + x.size])
             ELSE (IF cur.size > 0 THEN << cur >> ELSE << >>)
                  \o Collapse(Tail(blocks), x)

\* SequenceMatcher(None, a, b).get_matching_blocks(): the blocks in increasing
\* order, adjacent ones merged, closed by the dummy block (len(a), len(b), 0)
get_matching_blocks(a, b) ==
    LET found == BlocksIn(a, b, ChainB(b), 0, Len(a), 0, Len(b))
    IN  Collapse(SortBlocks(found), [a |-> 0, b |-> 0, size |-> 0])
        \o << [a |-> Len(a), b |-> Len(b), size |-> 0] >>

RECURSIVE SumSizes(_)
SumSizes(blocks) ==
    IF blocks = << >> THEN 0 ELSE Head(blocks).size + SumSizes(Tail(blocks))

\* calculate_ratio counting each matched element once
calculate_ratio_unscaled(matches, length) ==
    IF length # 0 THEN Quot(matches, length) ELSE One

\* calculate_ratio without the convention for two empty sequences
calculate_ratio_empty_zero(matches, length) ==
    IF length # 0 THEN Quot(2 * matches, length) ELSE Zero

\* _calculate_ratio(matches, length)
calculate_ratio(matches, length) ==
    IF length # 0 THEN Quot(2 * matches, length) ELSE One

\* SequenceMatcher(None, a, b).ratio(): the sizes of all the matching blocks
\* (the dummy block adds 0) over the two lengths
ratio(a, b) == calculate_ratio(SumSizes(get_matching_blocks(a, b)), Len(a) + Len(b))

(***************************************************************************)
(* compare.py compare_texts                                                *)
(***************************************************************************)
\* [normalize_word(word) for word in text.split()]
Words(text) ==
    LET ws == Split(text) IN [n \in 1..Len(ws) |-> normalize_word(ws[n])]

\* NumMatches counting the matched words of both texts
NumMatchesBothSides(blocks) == 2 * SumSizes(SubSeq(blocks, 1, Len(blocks) - 1))

\* sum(triple.size for triple in matcher.get_matching_blocks()[:-1])
NumMatches(blocks) == SumSizes(SubSeq(blocks, 1, Len(blocks) - 1))

\* DifferentWords with floor division
DifferentWordsFloored(len1, len2, num_matches) ==
    Quot(((len1 + len2) - 2 * num_matches) \div 2, 1)

\* DifferentWords taken from the longer text alone
DifferentWordsOfLonger(len1, len2, num_matches) ==
    Quot(Max(len1, len2) - 2 * num_matches, 2)

\* ((len(words1) + len(words2)) - 2 * num_matches) / 2
DifferentWords(len1, len2, num_matches) == Quot((len1 + len2) - 2 * num_matches, 2)

\* compare_texts taking sequence_similarity from the raw texts
compare_texts_raw_similarity(t1, t2) ==
    LET words1 == Words(t1)
        words2 == Words(t2)
        blocks == get_matching_blocks(words1, words2)
        num_matches == NumMatches(blocks)
    IN  [ total_words           |-> Max(Len(words1), Len(words2)),
          num_matches           |-> num_matches,
          different_words       |-> DifferentWords(Len(words1), Len(words2), num_matches),
          sequence_similarity   |-> ratio(t1, t2),
          word_order_similarity |-> calculate_ratio(SumSizes(blocks), Len(words1) + Len(words2)) ]

\* compare_texts(text1, text2); matcher.ratio() reads the matching blocks the
\* matcher has already computed for num_matches
compare_texts(t1, t2) ==
    LET words1 == Words(t1)
        words2 == Words(t2)
        blocks == get_matching_blocks(words1, words2)
        num_matches == NumMatches(blocks)
    IN  [ total_words           |-> Max(Len(words1), Len(words2)),
          num_matches           |-> num_matches,
          different_words       |-> DifferentWords(Len(words1), Len(words2), num_matches),
          sequence_similarity   |-> ratio(Join(words1, << " " >>), Join(words2, << " " >>)),
          word_order_similarity |-> calculate_ratio(SumSizes(blocks), Len(words1) + Len(words2)) ]

(***************************************************************************)
(* visualize_word_comparison of visualize_comparison.py                    *)
(***************************************************************************)
WordsPerPage == 100

\* SequenceMatcher.get_opcodes() from the triple (ai, bj, size) on: i and j
\* are the ends of the previous block
RECURSIVE OpcodesFrom(_, _, _)
OpcodesFrom(blocks, i, j) ==
    IF blocks = << >> THEN << >>
    ELSE LET m == Head(blocks)
             tag == IF i < m.a /\ j < m.b THEN "replace"
                    ELSE IF i < m.a THEN "delete"
                    ELSE IF j < m.b THEN "insert"
                    ELSE ""
         IN  (IF tag # ""
                 THEN << [tag |-> tag, i1 |-> i, i2 |-> m.a, j1 |-> j, j2 |-> m.b] >>
                 ELSE << >>)
             \o (IF m.size > 0
                    THEN << [tag |-> "equal", i1 |-> m.a, i2 |-> m.a + m.size,
                             j1 |-> m.b, j2 |-> m.b + m.size] >>
                    ELSE << >>)
             \o OpcodesFrom(Tail(blocks), m.a + m.size, m.b + m.size)

\* SequenceMatcher(None, a, b).get_opcodes()
get_opcodes(a, b) == OpcodesFrom(get_matching_blocks(a, b), 0, 0)

\* the number of lines "for i, j in zip(range(i1, i2), range(j1, j2))" draws
\* over the opcodes of one tag
RECURSIVE LinesDrawn(_, _)
LinesDrawn(opcodes, tag) ==
    IF opcodes = << >> THEN 0
    ELSE LET op == Head(opcodes)
         IN  (IF op.tag = tag THEN Min(op.i2 - op.i1, op.j2 - op.j1) ELSE 0)
             + LinesDrawn(Tail(opcodes), tag)

\* the Python slice words[start:end]
Slice(words, start, end) == SubSeq(words, start + 1, Min(end, Len(words)))

\* one page of the PDF: the words of both columns and the lines between them,
\* green for the 'equal' opcodes and red for the 'replace' opcodes of the
\* page's own SequenceMatcher
Page(normalized_words1, normalized_words2, start, end) ==
    CHOOSE out \in
        { [page_words1 |-> Len(p[1]), page_words2 |-> Len(p[2]),
           green |-> LinesDrawn(p[3], "equal"),
           red |-> LinesDrawn(p[3], "replace")] :
          p \in { << w[1], w[2], get_opcodes(w[1], w[2]) >> :
                  w \in { << Slice(normalized_words1, start, end),
                             Slice(normalized_words2, start, end) >> } } } : TRUE

\* visualize_word_comparison(text1, text2, ...): the pages saved to the PDF
visualize_word_comparison(t1, t2) ==
    CHOOSE out \in
        { [page \in 1..((w.max_words + WordsPerPage - 1) \div WordsPerPage) |->
              Page(w.words1, w.words2, (page - 1) * WordsPerPage,
                   Min(page * WordsPerPage, w.max_words))] :
          w \in { [words1 |-> ws[1], words2 |-> ws[2],
                   max_words |-> Max(Len(ws[1]), Len(ws[2]))] :
                  ws \in { << Words(t1), Words(t2) >> } } } : TRUE

(***************************************************************************)

(* The canonicalisation pipeline of compare.py                             *)
(***************************************************************************)
\* re.sub(rf'\b{word}\b[trail]*', repl, text, flags=re.IGNORECASE) for a
\* lowercase literal word followed by a greedy run of characters of trail:
\* the matches are replaced from left to right, the scan resuming after each
\* match.  low is text lowercased, from the position the scan is at.
RECURSIVE SubWordFrom(_, _, _, _, _, _)
SubWordFrom(text, low, word, trail, repl, from) ==
    LET n == Len(word)
        hits == {i \in from..(Len(text) - n + 1) :
                    /\ SubSeq(low, i, i + n - 1) = word
                    /\ (i = 1 \/ text[i - 1] \notin WordChars)
                    /\ (i + n > Len(text) \/ text[i + n] \notin WordChars)}
    IN  IF hits = {} THEN SubSeq(text, from, Len(text))
        ELSE LET i == CHOOSE x \in hits : \A y \in hits : x <= y
                 rest == Len(text) - (i + n - 1)
                 run == CHOOSE e \in 0..rest :
                            /\ (e = rest \/ text[i + n + e] \notin trail)
                            /\ \A d \in 1..e : text[i + n - 1 + d] \in trail
             IN  SubSeq(text, from, i - 1) \o repl
                 \o SubWordFrom(text, low, word, trail, repl, i + n + run)

\* SubWordFrom without the two \b: the word is replaced wherever it occurs
RECURSIVE SubAnywhereFrom(_, _, _, _, _, _)
SubAnywhereFrom(text, low, word, trail, repl, from) ==
    LET n == Len(word)
        hits == {i \in from..(Len(text) - n + 1) : SubSeq(low, i, i + n - 1) = word}
    IN  IF hits = {} THEN SubSeq(text, from, Len(text))
        ELSE LET i == CHOOSE x \in hits : \A y \in hits : x <= y
                 rest == Len(text) - (i + n - 1)
                 run == CHOOSE e \in 0..rest :
                            /\ (e = rest \/ text[i + n + e] \notin trail)
                            /\ \A d \in 1..e : text[i + n - 1 + d] \in trail
             IN  SubSeq(text, from, i - 1) \o repl
                 \o SubAnywhereFrom(text, low, word, trail, repl, i + n + run)

SubWordAnywhere(text, word, trail, repl) ==
    SubAnywhereFrom(text, Lower(text), word, trail, repl, 1)

SubWord(text, word, trail, repl) == SubWordFrom(text, Lower(text), word, trail, repl, 1)

Inaudible == << "i", "n", "a", "u", "d", "i", "b", "l", "e" >>

\* the character class [.,;:!?"'\-] of clean_text
TrailingPunctuation == { ".", ",", ";", ":", "!", "?", "\"", "'", "-" }

\* clean_text without the character class after the marker
clean_text_marker_only(text) == SubWord(text, Inaudible, {}, << >>)

\* clean_text: re.sub(r'\binaudible\b[.,;:!?"\'\-]*', '', text, flags=re.IGNORECASE)
clean_text(text) == SubWord(text, Inaudible, TrailingPunctuation, << >>)

\* contraction_map(): the dict's items in insertion order, << key, value >>
contraction_map ==
    <<
      << <<"t","h","e","y"," ","a","r","e">>, <<"t","h","e","y","r","e">> >>,
      << <<"w","e"," ","a","r","e">>, <<"w","e","r","e">> >>,
      << <<"y","o","u"," ","a","r","e">>, <<"y","o","u","r","e">> >>,
      << <<"i"," ","a","m">>, <<"i","m">> >>,
      << <<"d","o"," ","n","o","t">>, <<"d","o","n","t">> >>,
      << <<"d","o","e","s"," ","n","o","t">>, <<"d","o","e","s","n","t">> >>,
      << <<"d","i","d"," ","n","o","t">>, <<"d","i","d","n","t">> >>,
      << <<"i","s"," ","n","o","t">>, <<"i","s","n","t">> >>,
      << <<"a","r","e"," ","n","o","t">>, <<"a","r","e","n","t">> >>,
      << <<"w","a","s"," ","n","o","t">>, <<"w","a","s","n","t">> >>,
      << <<"w","e","r","e"," ","n","o","t">>, <<"w","e","r","e","n","t">> >>,
      << <<"h","a","v","e"," ","n","o","t">>, <<"h","a","v","e","n","t">> >>,
      << <<"h","a","s"," ","n","o","t">>, <<"h","a","s","n","t">> >>,
      << <<"h","a","d"," ","n","o","t">>, <<"h","a","d","n","t">> >>,
      << <<"w","i","l","l"," ","n","o","t">>, <<"w","o","n","t">> >>,
      << <<"w","o","u","l","d"," ","n","o","t">>, <<"w","o","u","l","d","n","t">> >>,
      << <<"s","h","o","u","l","d"," ","n","o","t">>, <<"s","h","o","u","l","d","n","t">> >>,
      << <<"c","o","u","l","d"," ","n","o","t">>, <<"c","o","u","l","d","n","t">> >>,
      << <<"c","a","n","n","o","t">>, <<"c","a","n","t">> >>,
      << <<"c","a","n"," ","n","o","t">>, <<"c","a","n","t">> >>,
      << <<"i","t"," ","i","s">>, <<"i","t","s">> >>,
      << <<"i","t"," ","w","i","l","l">>, <<"i","t","l","l">> >>,
      << <<"t","h","a","t"," ","i","s">>, <<"t","h","a","t","s">> >>,
      << <<"t","h","e","r","e"," ","i","s">>, <<"t","h","e","r","e","s">> >>,
      << <<"w","h","a","t"," ","i","s">>, <<"w","h","a","t","s">> >>,
      << <<"w","h","o"," ","i","s">>, <<"w","h","o","s">> >>,
      << <<"l","e","t"," ","u","s">>, <<"l","e","t","s">> >>,
      << <<"i"," ","w","i","l","l">>, <<"i","l","l">> >>,
      << <<"y","o","u"," ","w","i","l","l">>, <<"y","o","u","l","l">> >>,
      << <<"h","e"," ","w","i","l","l">>, <<"h","e","l","l">> >>,
      << <<"s","h","e"," ","w","i","l","l">>, <<"s","h","e","l","l">> >>,
      << <<"w","e"," ","w","i","l","l">>, <<"w","e","l","l">> >>,
      << <<"t","h","e","y"," ","w","i","l","l">>, <<"t","h","e","y","l","l">> >>,
      << <<"i"," ","h","a","v","e">>, <<"i","v","e">> >>,
      << <<"y","o","u"," ","h","a","v","e">>, <<"y","o","u","v","e">> >>,
      << <<"w","e"," ","h","a","v","e">>, <<"w","e","v","e">> >>,
      << <<"t","h","e","y"," ","h","a","v","e">>, <<"t","h","e","y","v","e">> >>,
      << <<"s","h","o","u","l","d"," ","h","a","v","e">>, <<"s","h","o","u","l","d","v","e">> >>,
      << <<"w","o","u","l","d"," ","h","a","v","e">>, <<"w","o","u","l","d","v","e">> >>,
      << <<"c","o","u","l","d"," ","h","a","v","e">>, <<"c","o","u","l","d","v","e">> >>,
      << <<"m","i","g","h","t"," ","h","a","v","e">>, <<"m","i","g","h","t","v","e">> >>,
      << <<"m","u","s","t"," ","h","a","v","e">>, <<"m","u","s","t","v","e">> >>,
      << <<"i"," ","w","o","u","l","d">>, <<"i","d">> >>,
      << <<"y","o","u"," ","w","o","u","l","d">>, <<"y","o","u","d">> >>,
      << <<"h","e"," ","w","o","u","l","d">>, <<"h","e","d">> >>,
      << <<"s","h","e"," ","w","o","u","l","d">>, <<"s","h","e","d">> >>,
      << <<"w","e"," ","w","o","u","l","d">>, <<"w","e","d">> >>,
      << <<"t","h","e","y"," ","w","o","u","l","d">>, <<"t","h","e","y","d">> >>,
      << <<"i"," ","h","a","d">>, <<"i","d">> >>,
      << <<"y","o","u"," ","h","a","d">>, <<"y","o","u","d">> >>,
      << <<"h","e"," ","h","a","d">>, <<"h","e","d">> >>,
      << <<"s","h","e"," ","h","a","d">>, <<"s","h","e","d">> >>,
      << <<"w","e"," ","h","a","d">>, <<"w","e","d">> >>,
      << <<"t","h","e","y"," ","h","a","d">>, <<"t","h","e","y","d">> >>,
      << <<"a","r","e","n","'","t">>, <<"a","r","e","n","t">> >>,
      << <<"c","a","n","'","t">>, <<"c","a","n","t">> >>,
      << <<"c","o","u","l","d","n","'","t">>, <<"c","o","u","l","d","n","t">> >>,
      << <<"d","i","d","n","'","t">>, <<"d","i","d","n","t">> >>,
      << <<"d","o","e","s","n","'","t">>, <<"d","o","e","s","n","t">> >>,
      << <<"d","o","n","'","t">>, <<"d","o","n","t">> >>,
      << <<"h","a","d","n","'","t">>, <<"h","a","d","n","t">> >>,
      << <<"h","a","s","n","'","t">>, <<"h","a","s","n","t">> >>,
      << <<"h","a","v","e","n","'","t">>, <<"h","a","v","e","n","t">> >>,
      << <<"h","e","'","d">>, <<"h","e","d">> >>,
      << <<"h","e","'","l","l">>, <<"h","e","l","l">> >>,
      << <<"h","e","'","s">>, <<"h","e","s">> >>,
      << <<"i","'","d">>, <<"i","d">> >>,
      << <<"i","'","l","l">>, <<"i","l","l">> >>,
      << <<"i","'","m">>, <<"i","m">> >>,
      << <<"i","'","v","e">>, <<"i","v","e">> >>,
      << <<"i","s","n","'","t">>, <<"i","s","n","t">> >>,
      << <<"i","t","'","d">>, <<"i","t","d">> >>,
      << <<"i","t","'","l","l">>, <<"i","t","l","l">> >>,
      << <<"i","t","'","s">>, <<"i","t","s">> >>,
      << <<"l","e","t","'","s">>, <<"l","e","t","s">> >>,
      << <<"m","i","g","h","t","n","'","t">>, <<"m","i","g","h","t","n","t">> >>,
      << <<"m","u","s","t","n","'","t">>, <<"m","u","s","t","n","t">> >>,
      << <<"s","h","a","n","'","t">>, <<"s","h","a","n","t">> >>,
      << <<"s","h","e","'","d">>, <<"s","h","e","d">> >>,
      << <<"s","h","e","'","l","l">>, <<"s","h","e","l","l">> >>,
      << <<"s","h","e","'","s">>, <<"s","h","e","s">> >>,
      << <<"s","h","o","u","l","d","n","'","t">>, <<"s","h","o","u","l","d","n","t">> >>,
      << <<"t","h","a","t","'","s">>, <<"t","h","a","t","s">> >>,
      << <<"t","h","e","r","e","'","s">>, <<"t","h","e","r","e","s">> >>,
      << <<"t","h","e","y","'","d">>, <<"t","h","e","y","d">> >>,
      << <<"t","h","e","y","'","l","l">>, <<"t","h","e","y","l","l">> >>,
      << <<"t","h","e","y","'","r","e">>, <<"t","h","e","y","r","e">> >>,
      << <<"t","h","e","y","'","v","e">>, <<"t","h","e","y","v","e">> >>,
      << <<"w","e","'","d">>, <<"w","e","d">> >>,
      << <<"w","e","'","r","e">>, <<"w","e","r","e">> >>,
      << <<"w","e","'","v","e">>, <<"w","e","v","e">> >>,
      << <<"w","e","r","e","n","'","t">>, <<"w","e","r","e","n","t">> >>,
      << <<"w","h","a","t","'","l","l">>, <<"w","h","a","t","l","l">> >>,
      << <<"w","h","a","t","'","r","e">>, <<"w","h","a","t","r","e">> >>,
      << <<"w","h","a","t","'","s">>, <<"w","h","a","t","s">> >>,
      << <<"w","h","a","t","'","v","e">>, <<"w","h","a","t","v","e">> >>,
      << <<"w","h","e","r","e","'","s">>, <<"w","h","e","r","e","s">> >>,
      << <<"w","h","o","'","d">>, <<"w","h","o","d">> >>,
      << <<"w","h","o","'","l","l">>, <<"w","h","o","l","l">> >>,
      << <<"w","h","o","'","r","e">>, <<"w","h","o","r","e">> >>,
      << <<"w","h","o","'","s">>, <<"w","h","o","s">> >>,
      << <<"w","h","o","'","v","e">>, <<"w","h","o","v","e">> >>,
      << <<"w","o","n","'","t">>, <<"w","o","n","t">> >>,
      << <<"w","o","u","l","d","n","'","t">>, <<"w","o","u","l","d","n","t">> >>,
      << <<"y","o","u","'","d">>, <<"y","o","u","d">> >>,
      << <<"y","o","u","'","l","l">>, <<"y","o","u","l","l">> >>,
      << <<"y","o","u","'","r","e">>, <<"y","o","u","r","e">> >>,
      << <<"y","o","u","'","v","e">>, <<"y","o","u","v","e">> >>
    >>

\* split_compound_words: the entries of the dict literal compounds as
\* written, << compound, split >>; three keys are written twice
compounds_literal ==
    <<
      << <<"c","o","l","d","b","l","o","o","d","e","d">>, <<"c","o","l","d"," ","b","l","o","o","d","e","d">> >>,
      << <<"w","a","r","m","b","l","o","o","d","e","d">>, <<"w","a","r","m"," ","b","l","o","o","d","e","d">> >>,
      << <<"t","o","a","d","s","t","o","o","l">>, <<"t","o","a","d"," ","s","t","o","o","l">> >>,
      << <<"b","u","l","l","f","r","o","g">>, <<"b","u","l","l"," ","f","r","o","g">> >>,
      << <<"t","a","d","p","o","l","e">>, <<"t","a","d"," ","p","o","l","e">> >>,
      << <<"t","r","e","e","f","r","o","g">>, <<"t","r","e","e"," ","f","r","o","g">> >>,
      << <<"s","p","r","i","n","g","p","e","e","p","e","r">>, <<"s","p","r","i","n","g"," ","p","e","e","p","e","r">> >>,
      << <<"w","o","o","d","f","r","o","g">>, <<"w","o","o","d"," ","f","r","o","g">> >>,
      << <<"s","p","a","d","e","f","o","o","t">>, <<"s","p","a","d","e"," ","f","o","o","t">> >>,
      << <<"n","e","w","t","l","i","k","e">>, <<"n","e","w","t"," ","l","i","k","e">> >>,
      << <<"f","r","o","g","s","p","a","w","n">>, <<"f","r","o","g"," ","s","p","a","w","n">> >>,
      << <<"p","o","n","d","w","e","e","d">>, <<"p","o","n","d"," ","w","e","e","d">> >>,
      << <<"n","i","g","h","t","t","i","m","e">>, <<"n","i","g","h","t"," ","t","i","m","e">> >>,
      << <<"s","e","e","t","h","r","o","u","g","h">>, <<"s","e","e"," ","t","h","r","o","u","g","h">> >>,
      << <<"w","a","t","e","r","h","o","l","e">>, <<"w","a","t","e","r"," ","h","o","l","e">> >>,
      << <<"r","a","i","n","f","o","r","e","s","t">>, <<"r","a","i","n"," ","f","o","r","e","s","t">> >>,
      << <<"s","u","n","b","a","k","e","d">>, <<"s","u","n"," ","b","a","k","e","d">> >>,
      << <<"b","a","c","k","b","o","n","e">>, <<"b","a","c","k"," ","b","o","n","e">> >>,
      << <<"e","g","g","s","a","c">>, <<"e","g","g"," ","s","a","c">> >>,
      << <<"o","v","e","r","w","i","n","t","e","r">>, <<"o","v","e","r"," ","w","i","n","t","e","r">> >>,
      << <<"u","n","d","e","r","w","a","t","e","r">>, <<"u","n","d","e","r"," ","w","a","t","e","r">> >>,
      << <<"d","a","y","l","i","g","h","t">>, <<"d","a","y"," ","l","i","g","h","t">> >>,
      << <<"e","a","r","t","h","w","o","r","m">>, <<"e","a","r","t","h"," ","w","o","r","m">> >>,
      << <<"i","n","s","e","c","t","l","i","k","e">>, <<"i","n","s","e","c","t"," ","l","i","k","e">> >>,
      << <<"m","o","u","t","h","p","a","r","t">>, <<"m","o","u","t","h"," ","p","a","r","t">> >>,
      << <<"t","a","i","l","f","i","n">>, <<"t","a","i","l"," ","f","i","n">> >>,
      << <<"w","e","b","b","e","d","f","e","e","t">>, <<"w","e","b","b","e","d"," ","f","e","e","t">> >>,
      << <<"w","e","b","b","e","d","f","o","o","t">>, <<"w","e","b","b","e","d"," ","f","o","o","t">> >>,
      << <<"n","o","t","e","b","o","o","k">>, <<"n","o","t","e"," ","b","o","o","k">> >>,
      << <<"b","l","a","c","k","b","o","a","r","d">>, <<"b","l","a","c","k"," ","b","o","a","r","d">> >>,
      << <<"c","l","a","s","s","r","o","o","m">>, <<"c","l","a","s","s"," ","r","o","o","m">> >>,
      << <<"s","u","n","f","l","o","w","e","r">>, <<"s","u","n"," ","f","l","o","w","e","r">> >>,
      << <<"f","o","o","t","b","a","l","l">>, <<"f","o","o","t"," ","b","a","l","l">> >>,
      << <<"b","a","s","k","e","t","b","a","l","l">>, <<"b","a","s","k","e","t"," ","b","a","l","l">> >>,
      << <<"b","a","s","e","b","a","l","l">>, <<"b","a","s","e"," ","b","a","l","l">> >>,
      << <<"p","l","a","y","g","r","o","u","n","d">>, <<"p","l","a","y"," ","g","r","o","u","n","d">> >>,
      << <<"s","c","h","o","o","l","y","a","r","d">>, <<"s","c","h","o","o","l"," ","y","a","r","d">> >>,
      << <<"l","u","n","c","h","b","o","x">>, <<"l","u","n","c","h"," ","b","o","x">> >>,
      << <<"t","o","o","t","h","b","r","u","s","h">>, <<"t","o","o","t","h"," ","b","r","u","s","h">> >>,
      << <<"h","a","i","r","b","r","u","s","h">>, <<"h","a","i","r"," ","b","r","u","s","h">> >>,
      << <<"b","e","d","r","o","o","m">>, <<"b","e","d"," ","r","o","o","m">> >>,
      << <<"b","a","t","h","r","o","o","m">>, <<"b","a","t","h"," ","r","o","o","m">> >>,
      << <<"l","i","v","i","n","g","r","o","o","m">>, <<"l","i","v","i","n","g"," ","r","o","o","m">> >>,
      << <<"d","i","n","i","n","g","r","o","o","m">>, <<"d","i","n","i","n","g"," ","r","o","o","m">> >>,
      << <<"b","o","o","k","s","h","e","l","f">>, <<"b","o","o","k"," ","s","h","e","l","f">> >>,
      << <<"b","o","o","k","s","h","e","l","v","e","s">>, <<"b","o","o","k"," ","s","h","e","l","v","e","s">> >>,
      << <<"s","n","o","w","m","a","n">>, <<"s","n","o","w"," ","m","a","n">> >>,
      << <<"r","a","i","n","c","o","a","t">>, <<"r","a","i","n"," ","c","o","a","t">> >>,
      << <<"f","i","r","e","m","a","n">>, <<"f","i","r","e"," ","m","a","n">> >>,
      << <<"p","o","l","i","c","e","m","a","n">>, <<"p","o","l","i","c","e"," ","m","a","n">> >>,
      << <<"m","a","i","l","b","o","x">>, <<"m","a","i","l"," ","b","o","x">> >>,
      << <<"s","a","n","d","b","o","x">>, <<"s","a","n","d"," ","b","o","x">> >>,
      << <<"d","o","g","h","o","u","s","e">>, <<"d","o","g"," ","h","o","u","s","e">> >>,
      << <<"c","a","t","f","i","s","h">>, <<"c","a","t"," ","f","i","s","h">> >>,
      << <<"g","o","l","d","f","i","s","h">>, <<"g","o","l","d"," ","f","i","s","h">> >>,
      << <<"s","t","a","r","f","i","s","h">>, <<"s","t","a","r"," ","f","i","s","h">> >>,
      << <<"c","u","p","c","a","k","e">>, <<"c","u","p"," ","c","a","k","e">> >>,
      << <<"b","i","r","t","h","d","a","y","c","a","k","e">>, <<"b","i","r","t","h","d","a","y"," ","c","a","k","e">> >>,
      << <<"p","a","n","c","a","k","e">>, <<"p","a","n"," ","c","a","k","e">> >>,
      << <<"c","h","e","e","s","e","c","a","k","e">>, <<"c","h","e","e","s","e"," ","c","a","k","e">> >>,
      << <<"p","o","p","c","o","r","n">>, <<"p","o","p"," ","c","o","r","n">> >>,
      << <<"p","e","a","n","u","t","b","u","t","t","e","r">>, <<"p","e","a","n","u","t"," ","b","u","t","t","e","r">> >>,
      << <<"s","t","r","a","w","b","e","r","r","y">>, <<"s","t","r","a","w"," ","b","e","r","r","y">> >>,
      << <<"b","l","u","e","b","e","r","r","y">>, <<"b","l","u","e"," ","b","e","r","r","y">> >>,
      << <<"r","a","s","p","b","e","r","r","y">>, <<"r","a","s","p"," ","b","e","r","r","y">> >>,
      << <<"b","l","a","c","k","b","e","r","r","y">>, <<"b","l","a","c","k"," ","b","e","r","r","y">> >>,
      << <<"g","r","e","e","n","h","o","u","s","e">>, <<"g","r","e","e","n"," ","h","o","u","s","e">> >>,
      << <<"l","i","g","h","t","h","o","u","s","e">>, <<"l","i","g","h","t"," ","h","o","u","s","e">> >>,
      << <<"w","h","e","e","l","c","h","a","i","r">>, <<"w","h","e","e","l"," ","c","h","a","i","r">> >>,
      << <<"n","e","w","s","p","a","p","e","r">>, <<"n","e","w","s"," ","p","a","p","e","r">> >>,
      << <<"a","i","r","p","o","r","t">>, <<"a","i","r"," ","p","o","r","t">> >>,
      << <<"r","a","i","n","b","o","w">>, <<"r","a","i","n"," ","b","o","w">> >>,
      << <<"m","o","o","n","l","i","g","h","t">>, <<"m","o","o","n"," ","l","i","g","h","t">> >>,
      << <<"s","u","n","l","i","g","h","t">>, <<"s","u","n"," ","l","i","g","h","t">> >>,
      << <<"s","t","a","r","l","i","g","h","t">>, <<"s","t","a","r"," ","l","i","g","h","t">> >>,
      << <<"d","a","y","d","r","e","a","m">>, <<"d","a","y"," ","d","r","e","a","m">> >>,
      << <<"n","i","g","h","t","m","a","r","e">>, <<"n","i","g","h","t"," ","m","a","r","e">> >>,
      << <<"o","v","e","r","c","o","a","t">>, <<"o","v","e","r"," ","c","o","a","t">> >>,
      << <<"u","n","d","e","r","d","o","g">>, <<"u","n","d","e","r"," ","d","o","g">> >>,
      << <<"o","v","e","r","h","e","a","d">>, <<"o","v","e","r"," ","h","e","a","d">> >>,
      << <<"u","n","d","e","r","f","o","o","t">>, <<"u","n","d","e","r"," ","f","o","o","t">> >>,
      << <<"u","p","s","t","a","i","r","s">>, <<"u","p"," ","s","t","a","i","r","s">> >>,
      << <<"d","o","w","n","s","t","a","i","r","s">>, <<"d","o","w","n"," ","s","t","a","i","r","s">> >>,
      << <<"o","u","t","d","o","o","r","s">>, <<"o","u","t"," ","d","o","o","r","s">> >>,
      << <<"i","n","d","o","o","r","s">>, <<"i","n"," ","d","o","o","r","s">> >>,
      << <<"o","u","t","f","i","e","l","d">>, <<"o","u","t"," ","f","i","e","l","d">> >>,
      << <<"i","n","f","i","e","l","d">>, <<"i","n"," ","f","i","e","l","d">> >>,
      << <<"o","u","t","l","a","w">>, <<"o","u","t"," ","l","a","w">> >>,
      << <<"i","n","l","e","t">>, <<"i","n"," ","l","e","t">> >>,
      << <<"o","u","t","l","e","t">>, <<"o","u","t"," ","l","e","t">> >>,
      << <<"u","p","s","e","t">>, <<"u","p"," ","s","e","t">> >>,
      << <<"d","o","w","n","p","o","u","r">>, <<"d","o","w","n"," ","p","o","u","r">> >>,
      << <<"o","u","t","c","o","m","e">>, <<"o","u","t"," ","c","o","m","e">> >>,
      << <<"i","n","c","o","m","e">>, <<"i","n"," ","c","o","m","e">> >>,
      << <<"o","u","t","b","r","e","a","k">>, <<"o","u","t"," ","b","r","e","a","k">> >>,
      << <<"i","n","p","u","t">>, <<"i","n"," ","p","u","t">> >>,
      << <<"o","u","t","p","u","t">>, <<"o","u","t"," ","p","u","t">> >>,
      << <<"o","u","t","l","o","o","k">>, <<"o","u","t"," ","l","o","o","k">> >>,
      << <<"i","n","s","i","g","h","t">>, <<"i","n"," ","s","i","g","h","t">> >>,
      << <<"o","v","e","r","s","i","g","h","t">>, <<"o","v","e","r"," ","s","i","g","h","t">> >>,
      << <<"o","v","e","r","s","e","e">>, <<"o","v","e","r"," ","s","e","e">> >>,
      << <<"o","v","e","r","d","o">>, <<"o","v","e","r"," ","d","o">> >>,
      << <<"u","n","d","o">>, <<"u","n"," ","d","o">> >>,
      << <<"r","e","d","o">>, <<"r","e"," ","d","o">> >>,
      << <<"p","r","e","v","i","e","w">>, <<"p","r","e"," ","v","i","e","w">> >>,
      << <<"r","e","v","i","e","w">>, <<"r","e"," ","v","i","e","w">> >>,
      << <<"r","e","p","l","a","y">>, <<"r","e"," ","p","l","a","y">> >>,
      << <<"r","e","t","a","k","e">>, <<"r","e"," ","t","a","k","e">> >>,
      << <<"r","e","b","u","i","l","d">>, <<"r","e"," ","b","u","i","l","d">> >>,
      << <<"r","e","c","y","c","l","e">>, <<"r","e"," ","c","y","c","l","e">> >>,
      << <<"r","e","c","h","a","r","g","e">>, <<"r","e"," ","c","h","a","r","g","e">> >>,
      << <<"r","e","a","r","r","a","n","g","e">>, <<"r","e"," ","a","r","r","a","n","g","e">> >>,
      << <<"r","e","a","p","p","e","a","r">>, <<"r","e"," ","a","p","p","e","a","r">> >>,
      << <<"r","e","a","p","p","l","y">>, <<"r","e"," ","a","p","p","l","y">> >>,
      << <<"r","e","c","o","n","n","e","c","t">>, <<"r","e"," ","c","o","n","n","e","c","t">> >>,
      << <<"r","e","c","o","n","s","i","d","e","r">>, <<"r","e"," ","c","o","n","s","i","d","e","r">> >>,
      << <<"r","e","c","o","n","s","t","r","u","c","t">>, <<"r","e"," ","c","o","n","s","t","r","u","c","t">> >>,
      << <<"r","e","c","o","u","n","t">>, <<"r","e"," ","c","o","u","n","t">> >>,
      << <<"r","e","c","o","v","e","r">>, <<"r","e"," ","c","o","v","e","r">> >>,
      << <<"r","e","c","r","e","a","t","e">>, <<"r","e"," ","c","r","e","a","t","e">> >>,
      << <<"r","e","d","e","f","i","n","e">>, <<"r","e"," ","d","e","f","i","n","e">> >>,
      << <<"r","e","d","i","s","c","o","v","e","r">>, <<"r","e"," ","d","i","s","c","o","v","e","r">> >>,
      << <<"r","e","e","n","t","e","r">>, <<"r","e"," ","e","n","t","e","r">> >>,
      << <<"r","e","f","i","l","l">>, <<"r","e"," ","f","i","l","l">> >>,
      << <<"r","e","f","o","c","u","s">>, <<"r","e"," ","f","o","c","u","s">> >>,
      << <<"r","e","f","r","e","s","h">>, <<"r","e"," ","f","r","e","s","h">> >>,
      << <<"r","e","g","a","i","n">>, <<"r","e"," ","g","a","i","n">> >>,
      << <<"r","e","g","r","o","w">>, <<"r","e"," ","g","r","o","w">> >>,
      << <<"r","e","h","a","s","h">>, <<"r","e"," ","h","a","s","h">> >>,
      << <<"r","e","h","e","a","t">>, <<"r","e"," ","h","e","a","t">> >>,
      << <<"r","e","j","o","i","n">>, <<"r","e"," ","j","o","i","n">> >>,
      << <<"r","e","l","i","v","e">>, <<"r","e"," ","l","i","v","e">> >>,
      << <<"r","e","m","a","k","e">>, <<"r","e"," ","m","a","k","e">> >>,
      << <<"r","e","m","a","t","c","h">>, <<"r","e"," ","m","a","t","c","h">> >>,
      << <<"r","e","m","o","v","e">>, <<"r","e"," ","m","o","v","e">> >>,
      << <<"r","e","n","a","m","e">>, <<"r","e"," ","n","a","m","e">> >>,
      << <<"r","e","n","e","w">>, <<"r","e"," ","n","e","w">> >>,
      << <<"r","e","o","p","e","n">>, <<"r","e"," ","o","p","e","n">> >>,
      << <<"r","e","p","l","a","c","e">>, <<"r","e"," ","p","l","a","c","e">> >>,
      << <<"r","e","p","l","a","y">>, <<"r","e"," ","p","l","a","y">> >>,
      << <<"r","e","p","o","r","t">>, <<"r","e"," ","p","o","r","t">> >>,
      << <<"r","e","s","e","n","d">>, <<"r","e"," ","s","e","n","d">> >>,
      << <<"r","e","s","e","t">>, <<"r","e"," ","s","e","t">> >>,
      << <<"r","e","s","i","g","n">>, <<"r","e"," ","s","i","g","n">> >>,
      << <<"r","e","s","i","s","t">>, <<"r","e"," ","s","i","s","t">> >>,
      << <<"r","e","s","o","l","v","e">>, <<"r","e"," ","s","o","l","v","e">> >>,
      << <<"r","e","s","o","r","t">>, <<"r","e"," ","s","o","r","t">> >>,
      << <<"r","e","s","o","u","r","c","e">>, <<"r","e"," ","s","o","u","r","c","e">> >>,
      << <<"r","e","s","p","e","c","t">>, <<"r","e"," ","s","p","e","c","t">> >>,
      << <<"r","e","s","p","o","n","d">>, <<"r","e"," ","s","p","o","n","d">> >>,
      << <<"r","e","s","t","a","r","t">>, <<"r","e"," ","s","t","a","r","t">> >>,
      << <<"r","e","s","t","o","r","e">>, <<"r","e"," ","s","t","o","r","e">> >>,
      << <<"r","e","s","t","r","i","c","t">>, <<"r","e"," ","s","t","r","i","c","t">> >>,
      << <<"r","e","s","u","l","t">>, <<"r","e"," ","s","u","l","t">> >>,
      << <<"r","e","s","u","m","e">>, <<"r","e"," ","s","u","m","e">> >>,
      << <<"r","e","t","a","k","e">>, <<"r","e"," ","t","a","k","e">> >>,
      << <<"r","e","t","e","l","l">>, <<"r","e"," ","t","e","l","l">> >>,
      << <<"r","e","t","i","r","e">>, <<"r","e"," ","t","i","r","e">> >>,
      << <<"r","e","t","u","r","n">>, <<"r","e"," ","t","u","r","n">> >>,
      << <<"r","e","u","s","e">>, <<"r","e"," ","u","s","e">> >>,
      << <<"r","e","v","e","a","l">>, <<"r","e"," ","v","e","a","l">> >>,
      << <<"r","e","v","e","n","g","e">>, <<"r","e"," ","v","e","n","g","e">> >>,
      << <<"r","e","v","e","r","s","e">>, <<"r","e"," ","v","e","r","s","e">> >>,
      << <<"r","e","v","i","e","w">>, <<"r","e"," ","v","i","e","w">> >>,
      << <<"r","e","v","i","s","e">>, <<"r","e"," ","v","i","s","e">> >>,
      << <<"r","e","v","i","s","i","t">>, <<"r","e"," ","v","i","s","i","t">> >>,
      << <<"r","e","v","o","k","e">>, <<"r","e"," ","v","o","k","e">> >>,
      << <<"r","e","w","a","r","d">>, <<"r","e"," ","w","a","r","d">> >>,
      << <<"r","e","w","i","n","d">>, <<"r","e"," ","w","i","n","d">> >>,
      << <<"r","e","w","r","i","t","e">>, <<"r","e"," ","w","r","i","t","e">> >>
    >>

\* the items of a dict built from a literal, in insertion order: a key
\* written again keeps its first position and takes the last value
DictItems(pairs) ==
    LET firsts == SelectSeq([n \in 1..Len(pairs) |-> n],
                            LAMBDA n : \A m \in 1..(n - 1) : pairs[m][1] # pairs[n][1])
        last(key) == CHOOSE m \in 1..Len(pairs) :
                        /\ pairs[m][1] = key
                        /\ \A k \in (m + 1)..Len(pairs) : pairs[k][1] # key
    IN  SubSeq([i \in 1..Len(firsts) |->
                    << pairs[firsts[i]][1], pairs[last(pairs[firsts[i]][1])][2] >>],
               1, Len(firsts))

\* the dict with one more entry written at its end, "birthday", the first
\* word of the split form of "birthdaycake"
compounds_with_birthday ==
    DictItems(compounds_literal
              \o << << <<"b","i","r","t","h","d","a","y">>,
                       <<"b","i","r","t","h"," ","d","a","y">> >> >>)

\* compounds.items()
compounds == DictItems(compounds_literal)

\* map_expanded_to_contraction, normalize_for_map
normalize_for_map(s) == Lower(StripPunctuation(NFKC(s)))

\* str.replace(old, new): the occurrences of old, found from left to right
\* without overlap, replaced by new
RECURSIVE ReplaceFrom(_, _, _, _)
ReplaceFrom(text, old, new, from) ==
    LET n == Len(old)
        hits == {i \in from..(Len(text) - n + 1) : SubSeq(text, i, i + n - 1) = old}
    IN  IF hits = {} THEN SubSeq(text, from, Len(text))
        ELSE LET i == CHOOSE x \in hits : \A y \in hits : x <= y
             IN  SubSeq(text, from, i - 1) \o new \o ReplaceFrom(text, old, new, i + n)

Replace(text, old, new) == ReplaceFrom(text, old, new, 1)

\* map_expanded_to_contraction, the loop over mapping.items(): the entries
\* lo..hi of the table applied in order.  The range is halved: half is the
\* text the first half of the entries leaves, and the second half is applied
\* to it.
RECURSIVE FoldEntries(_, _, _, _)
FoldEntries(text_norm, mapping, lo, hi) ==
    IF lo > hi THEN text_norm
    ELSE IF lo = hi
         THEN Replace(text_norm, normalize_for_map(mapping[lo][1]), mapping[lo][2])
    ELSE LET mid == (lo + hi) \div 2
         IN  CHOOSE out \in { FoldEntries(half, mapping, mid + 1, hi) :
                                half \in {FoldEntries(text_norm, mapping, lo, mid)} } : TRUE

\* map_expanded_to_contraction with the result of str.replace dropped
map_expanded_to_contraction_unassigned(text) == normalize_for_map(text)

map_expanded_to_contraction(text) ==
    FoldEntries(normalize_for_map(text), contraction_map, 1, Len(contraction_map))

\* split_compound_words, the loop over compounds.items():
\* text = re.sub(rf'\b{compound}\b', split, text, flags=re.IGNORECASE)
RECURSIVE SplitEntries(_, _, _, _)
SplitEntries(text, table, lo, hi) ==
    IF lo > hi THEN text
    ELSE IF lo = hi THEN SubWord(text, table[lo][1], {}, table[lo][2])
    ELSE LET mid == (lo + hi) \div 2
         IN  CHOOSE out \in { SplitEntries(half, table, mid + 1, hi) :
                                half \in {SplitEntries(text, table, lo, mid)} } : TRUE

split_compound_words(text) == SplitEntries(text, compounds, 1, Len(compounds))

(***************************************************************************)
(* Inputs of compare_texts                                                 *)
(***************************************************************************)
MaxWords == 3

\* the words the short texts are made of: "a", "B." (canonical form "b"), "c"
CompareVocabulary == { << "a" >>, << "B", "." >>, << "c" >> }

WordLists(V, n) == UNION {[1..k -> V] : k \in 0..n}

ShortTexts == {Join(ws, << " " >>) : ws \in WordLists(CompareVocabulary, MaxWords)}

CatsAndDogs == << "c","a","t","s"," ","a","n","d"," ","d","o","g","s" >>

DogsAndCats == << "d","o","g","s"," ","a","n","d"," ","c","a","t","s" >>

\* a text of AutojunkMinLen copies of one word: every element is popular
LongText == [i \in 1..(2 * AutojunkMinLen - 1) |-> IF i % 2 = 1 THEN "a" ELSE " "]

\* a punctuation-only item, doubled separators and a trailing newline
DashText == << "-", " ", " ", "a", "\t", "-", "\n" >>

\* LongText after one other word: "x" is the only word autojunk keeps in b2j
XThenLongText == << "x", " " >> \o LongText

AThenX == << "a", " ", "x" >>

ScenarioPairs ==
    { << CatsAndDogs, DogsAndCats >>, << CatsAndDogs, CatsAndDogs >>,
      << LongText, LongText >>, << LongText, << "a" >> >>,
      << DashText, DashText >>, << DashText, << "a" >> >>,
      << AThenX, XThenLongText >> }

ComparePairs == (ShortTexts \X ShortTexts) \cup ScenarioPairs

(***************************************************************************)
(* compare_texts under test: called on a pair of texts, then on the pair   *)
(* in the other order                                                      *)
(***************************************************************************)
InitCompare ==
    /\ pc = "compare_texts"
    /\ \E p \in ComparePairs : arg1 = p[1] /\ arg2 = p[2]
    /\ ret1 = None /\ ret2 = None
    /\ file1 = None /\ file2 = None /\ text1 = None /\ text2 = None
    /\ results = None
    /\ ToolIdle /\ VideoIdle

CallCompareTexts ==
    /\ pc = "compare_texts"
    /\ ret1' = compare_texts(arg1, arg2)
    /\ pc' = "compare_texts_swapped"
    /\ UNCHANGED <<file1, file2, text1, text2, results, arg1, arg2, ret2>>
    /\ UNCHANGED <<toolVars, videoVars>>

CallCompareTextsSwapped ==
    /\ pc = "compare_texts_swapped"
    /\ ret2' = compare_texts(arg2, arg1)
    /\ pc' = "compared"
    /\ UNCHANGED <<file1, file2, text1, text2, results, arg1, arg2, ret1>>
    /\ UNCHANGED <<toolVars, videoVars>>

NextCompare == CallCompareTexts \/ CallCompareTextsSwapped

SpecCompare == InitCompare /\ [][NextCompare]_vars

(***************************************************************************)
(* Inputs of the pipeline: texts written as phrases joined by single       *)
(* spaces; the second text is the first, or the first with one phrase      *)
(* spelled the other way                                                   *)
(***************************************************************************)
MaxPhrases == 2

MaxFoldPhrases == 3

Phrases(V, n) == UNION {[1..k -> V] : k \in 0..n}

TextOf(phrases) == Join(phrases, << " " >>)

\* the phrase lists got from ps by respelling one phrase as Alt pairs it
OneRespelled(ps, Alt) ==
    {[ps EXCEPT ![x[1]] = x[2][2]] :
        x \in {y \in (1..Len(ps)) \X Alt : ps[y[1]] = y[2][1]}}

TextPairs(V, n, Alt) ==
    UNION { {<< TextOf(ps), TextOf(qs) >> : qs \in {ps} \cup OneRespelled(ps, Alt)} :
            ps \in Phrases(V, n) }

w_bullfrog == << "b","u","l","l","f","r","o","g" >>

w_bull_frog == << "b","u","l","l"," ","f","r","o","g" >>

w_undo == << "u","n","d","o" >>

w_un_do == << "u","n"," ","d","o" >>

w_not == << "n","o","t" >>

w_is_not == << "i","s"," ","n","o","t" >>

w_happy == << "h","a","p","p","y" >>

w_Inaudible == << "I","n","a","u","d","i","b","l","e","," >>

w_it_is == << "i","t"," ","i","s" >>

w_its == << "i","t","'","s" >>

w_do_not == << "d","o"," ","n","o","t" >>

w_dont == << "d","o","n","'","t" >>

w_i == << "i" >>

w_wi == << "w","i" >>

w_will == << "w","i","l","l" >>

\* documents: a closed and an open compound twice, phrases that fold, a marker
DocumentVocabulary ==
    { w_bullfrog, w_bull_frog, w_undo, w_un_do, w_not, w_is_not, w_happy, w_Inaudible }

\* the closed spelling of a compound and its open spelling
CompoundSpellings == { << w_bullfrog, w_bull_frog >>, << w_undo, w_un_do >> }

TheBullfrogIsNotHappy == << "T","h","e"," ","b","u","l","l","f","r","o","g"," ","i","s"," ","n","o","t"," ","h","a","p","p","y" >>

TheBullFrogIsntHappy == << "t","h","e"," ","b","u","l","l"," ","f","r","o","g"," ","i","s","n","t"," ","h","a","p","p","y" >>

DocumentPairs ==
    TextPairs(DocumentVocabulary, MaxPhrases, CompoundSpellings)
        \cup { << TheBullfrogIsNotHappy, TheBullFrogIsntHappy >> }

\* texts to fold: expanded phrases, their apostrophe contractions, and words
\* that hold the pieces of a phrase
FoldVocabulary ==
    { w_it_is, w_its, w_do_not, w_dont, w_not, w_i, w_wi, w_will }

\* an expanded phrase and its standard contraction
ContractionSpellings == { << w_it_is, w_its >>, << w_do_not, w_dont >> }

FoldPairs == TextPairs(FoldVocabulary, MaxFoldPhrases, ContractionSpellings)

(***************************************************************************)
(* main() of compare.py and of visualize_comparison.py, from "Read         *)
(* documents" on: the two selected documents are read and cleaned, folded  *)
(* and split; compare.py then compares them and prints the results,        *)
(* visualize_comparison.py draws them                                      *)
(***************************************************************************)
Tools == { "compare.py", "visualize_comparison.py" }

\* the extensions of the paths get_valid_file_path returns
SelectableExtensions == { ".docx", ".txt" }

\* how a selected document reads: its extension, and whether docx.Document
\* (for .docx) or open/read (for .txt) raises
ReadConditions == [ext : SelectableExtensions, raises : BOOLEAN]

\* the two selected documents: one of them at least fails to read, or a
\* .docx and a .txt document both read
ReadConditionPairs ==
    { p \in ReadConditions \X ReadConditions : p[1].raises \/ p[2].raises }
        \cup { << [ext |-> ".docx", raises |-> FALSE], [ext |-> ".txt", raises |-> FALSE] >> }

\* sys.exit(1) in place of a returned text
SysExit1 == [exit |-> 1, text |-> None]

\* read_docx that gives an empty text where docx.Document raises
read_docx_empty_on_error(content, cond) ==
    IF cond.raises THEN [exit |-> 0, text |-> << >>] ELSE [exit |-> 0, text |-> content]

\* read_docx(file_path): the paragraphs joined by newlines; any exception is
\* printed and the process exits with status 1
read_docx(content, cond) ==
    IF cond.raises THEN SysExit1 ELSE [exit |-> 0, text |-> content]

\* read_file(file_path)
read_file(content, cond) ==
    IF cond.ext = ".docx" THEN read_docx(content, cond)
    ELSE IF cond.ext = ".txt"
        THEN (IF cond.raises THEN SysExit1 ELSE [exit |-> 0, text |-> content])
        ELSE SysExit1

Init ==
    /\ pc = "read"
    /\ \E d \in DocumentPairs : file1 = d[1] /\ file2 = d[2]
    /\ text1 = None /\ text2 = None
    /\ results = None
    /\ tool \in Tools
    /\ reads \in ReadConditionPairs
    /\ stages = << << >>, << >> >>
    /\ exit_status = None
    /\ VideoIdle
    /\ arg1 = None /\ arg2 = None /\ ret1 = None /\ ret2 = None

\* text1 = clean_text(read_file(file1)); text2 = clean_text(read_file(file2))
ReadDocuments ==
    /\ pc = "read"
    /\ \E r1 \in { read_file(file1, reads[1]) }, r2 \in { read_file(file2, reads[2]) } :
          IF r1.exit = 1
          THEN /\ pc' = "exit"
               /\ exit_status' = 1
               /\ UNCHANGED <<text1, text2, stages>>
          ELSE IF r2.exit = 1
          THEN /\ text1' = clean_text(r1.text)
               /\ stages' = << << "clean_text" >>, << >> >>
               /\ pc' = "exit"
               /\ exit_status' = 1
               /\ UNCHANGED text2
          ELSE /\ text1' = clean_text(r1.text)
               /\ text2' = clean_text(r2.text)
               /\ stages' = << << "clean_text" >>, << "clean_text" >> >>
               /\ pc' = "fold"
               /\ UNCHANGED exit_status
    /\ UNCHANGED <<file1, file2, results, arg1, arg2, ret1, ret2>>
    /\ UNCHANGED <<tool, reads, videoVars>>

\* main() going from the cleaned texts straight to split_compound_words
MapExpandedToContractionSkipped ==
    /\ pc = "fold"
    /\ pc' = "split"
    /\ UNCHANGED <<file1, file2, text1, text2, results, arg1, arg2, ret1, ret2>>
    /\ UNCHANGED <<toolVars, videoVars>>

\* text1 = map_expanded_to_contraction(text1); the same for text2
MapExpandedToContraction ==
    /\ pc = "fold"
    /\ text1' = map_expanded_to_contraction(text1)
    /\ text2' = map_expanded_to_contraction(text2)
    /\ stages' = << Append(stages[1], "map_expanded_to_contraction"),
                    Append(stages[2], "map_expanded_to_contraction") >>
    /\ pc' = "split"
    /\ UNCHANGED <<file1, file2, results, arg1, arg2, ret1, ret2>>
    /\ UNCHANGED <<tool, reads, exit_status, videoVars>>

\* text1 = split_compound_words(text1); the same for text2
SplitCompoundWords ==
    /\ pc = "split"
    /\ text1' = split_compound_words(text1)
    /\ text2' = split_compound_words(text2)
    /\ stages' = << Append(stages[1], "split_compound_words"),
                    Append(stages[2], "split_compound_words") >>
    /\ pc' = IF tool = "compare.py" THEN "compare" ELSE "visualize"
    /\ UNCHANGED <<file1, file2, results, arg1, arg2, ret1, ret2>>
    /\ UNCHANGED <<tool, reads, exit_status, videoVars>>

\* compare.py: results = compare_texts(text1, text2)
CompareTexts ==
    /\ pc = "compare"
    /\ results' = compare_texts(text1, text2)
    /\ pc' = "print"
    /\ UNCHANGED <<file1, file2, text1, text2, arg1, arg2, ret1, ret2>>
    /\ UNCHANGED <<toolVars, videoVars>>

\* compare.py: the four result lines are printed and main returns
PrintResults ==
    /\ pc = "print"
    /\ pc' = "done"
    /\ UNCHANGED <<file1, file2, text1, text2, results, arg1, arg2, ret1, ret2>>
    /\ UNCHANGED <<toolVars, videoVars>>

\* visualize_comparison.py: visualize_word_comparison(text1, text2, ...) saves
\* the pages and main returns
VisualizeWordComparison ==
    /\ pc = "visualize"
    /\ results' = visualize_word_comparison(text1, text2)
    /\ pc' = "visualized"
    /\ UNCHANGED <<file1, file2, text1, text2, arg1, arg2, ret1, ret2>>
    /\ UNCHANGED <<toolVars, videoVars>>

Next ==
    \/ ReadDocuments
    \/ MapExpandedToContraction
    \/ SplitCompoundWords
    \/ CompareTexts
    \/ PrintResults
    \/ VisualizeWordComparison

Spec == Init /\ [][Next]_vars

(***************************************************************************)
(* map_expanded_to_contraction under test: called on a text, on its        *)
(* respelled twin, and then again on its own results                       *)
(***************************************************************************)
InitFold ==
    /\ pc = "fold_first"
    /\ \E p \in FoldPairs : arg1 = p[1] /\ arg2 = p[2]
    /\ ret1 = None /\ ret2 = None
    /\ file1 = None /\ file2 = None /\ text1 = None /\ text2 = None
    /\ results = None
    /\ ToolIdle /\ VideoIdle

CallFoldFirst ==
    /\ pc = "fold_first"
    /\ ret1' = map_expanded_to_contraction(arg1)
    /\ pc' = "fold_second"
    /\ UNCHANGED <<file1, file2, text1, text2, results, arg1, arg2, ret2>>
    /\ UNCHANGED <<toolVars, videoVars>>

CallFoldSecond ==
    /\ pc = "fold_second"
    /\ ret2' = map_expanded_to_contraction(arg2)
    /\ pc' = "fold_again"
    /\ UNCHANGED <<file1, file2, text1, text2, results, arg1, arg2, ret1>>
    /\ UNCHANGED <<toolVars, videoVars>>

\* the results of the two calls are the arguments of two further calls
CallFoldAgain ==
    /\ pc = "fold_again"
    /\ arg1' = ret1
    /\ arg2' = ret2
    /\ ret1' = map_expanded_to_contraction(ret1)
    /\ ret2' = map_expanded_to_contraction(ret2)
    /\ pc' = "folded_again"
    /\ UNCHANGED <<file1, file2, text1, text2, results>>
    /\ UNCHANGED <<toolVars, videoVars>>

NextFold == CallFoldFirst \/ CallFoldSecond \/ CallFoldAgain

SpecFold == InitFold /\ [][NextFold]_vars

(***************************************************************************)
(* Properties of compare_texts (SpecCompare)                               *)
(***************************************************************************)
Called == pc \in {"compare_texts_swapped", "compared"}

\* the same words with the same multiplicities
SameWordCounts(w1, w2) ==
    /\ Len(w1) = Len(w2)
    /\ \A x \in Range(w1) \cup Range(w2) :
          Cardinality({i \in 1..Len(w1) : w1[i] = x})
            = Cardinality({i \in 1..Len(w2) : w2[i] = x})

\* C1: compare_texts(a, b) and compare_texts(b, a) return the same
\* num_matches, different_words and word_order_similarity.
C1_Symmetry ==
    pc = "compared" =>
        /\ ret1.num_matches = ret2.num_matches
        /\ ret1.different_words = ret2.different_words
        /\ ret1.word_order_similarity = ret2.word_order_similarity

\* C2: comparing a non-empty text with itself matches every token: num_matches
\* is the number of whitespace-separated tokens, different_words is 0 and
\* word_order_similarity is 1.0.
C2_SelfComparison ==
    (Called /\ arg1 = arg2 /\ arg1 # << >>) =>
        /\ ret1.num_matches = Len(Split(arg1))
        /\ ret1.different_words = Zero
        /\ ret1.word_order_similarity = One

\* a text of 200 equal words, every one purged from b2j as popular, has been
\* compared with itself
C2_Witness ==
    /\ Called /\ arg1 = arg2 /\ arg1 = LongText
    /\ PopularElements(Words(arg1)) = Range(Words(arg1))
    /\ ret1.num_matches = AutojunkMinLen

\* C6 as stated: "cats and dogs" against "dogs and cats" gives num_matches 3.
C6_ThreeMatches ==
    (Called /\ arg1 = CatsAndDogs /\ arg2 = DogsAndCats) => ret1.num_matches = 3

\* C6 amended: "cats and dogs" against "dogs and cats" gives num_matches 1
\* (the single block "cats"; no other word lies after it in both texts).
C6_OneMatch ==
    (Called /\ arg1 = CatsAndDogs /\ arg2 = DogsAndCats) => ret1.num_matches = 1

C6_Witness ==
    /\ Called /\ arg1 = CatsAndDogs /\ arg2 = DogsAndCats
    /\ ret1.total_words = 3

\* C7: word_order_similarity is 1.0 only for identical canonical token
\* sequences; the same tokens in another order get word_order_similarity
\* below 1.0 and different_words above 0.
C7_OrderSensitivity ==
    Called =>
        LET w1 == Words(arg1)
            w2 == Words(arg2)
        IN  /\ ret1.word_order_similarity = One => w1 = w2
            /\ (w1 # w2 /\ SameWordCounts(w1, w2)) =>
                    /\ RatLess(ret1.word_order_similarity, One)
                    /\ RatLess(Zero, ret1.different_words)

\* two texts of the same three words in different orders have been compared
C7_Witness ==
    /\ Called /\ Words(arg1) # Words(arg2)
    /\ SameWordCounts(Words(arg1), Words(arg2))
    /\ Len(Words(arg1)) = 3
    /\ RatLess(ret1.word_order_similarity, One)

\* C9: num_matches <= total_words, with total_words the larger token count.
C9_MatchesAtMostTotal ==
    Called =>
        /\ ret1.total_words = Max(Len(Words(arg1)), Len(Words(arg2)))
        /\ ret1.num_matches <= ret1.total_words

\* every word of the longer text is matched
C9_Witness ==
    /\ Called /\ ret1.total_words >= 3
    /\ ret1.num_matches = ret1.total_words

\* C10: different_words >= 0, that is 2 * num_matches <= len(tokens1) + len(tokens2).
C10_DifferentWordsNonNegative ==
    Called =>
        /\ ret1.different_words.num >= 0
        /\ 2 * ret1.num_matches <= Len(Words(arg1)) + Len(Words(arg2))

\* two texts of equal length in which all words but one are matched
C10_Witness ==
    /\ Called /\ Len(Words(arg1)) = Len(Words(arg2))
    /\ ret1.num_matches = Len(Words(arg1)) - 1
    /\ ret1.num_matches >= 2
    /\ ret1.different_words = One

(***************************************************************************)
(* Properties of the pipeline (Spec, SpecFold)                             *)
(***************************************************************************)
\* t2 is t1 with one occurrence of old, at position i, replaced by new
ReplacedAt(t1, t2, i, old, new) ==
    /\ i + Len(old) - 1 <= Len(t1)
    /\ SubSeq(t1, i, i + Len(old) - 1) = old
    /\ t2 = SubSeq(t1, 1, i - 1) \o new \o SubSeq(t1, i + Len(old), Len(t1))

\* the expanded keys of contraction_map paired with the apostrophe keys that
\* have the same value: << "do not", "don't" >>, << "it is", "it's" >>, ...
StandardContractions ==
    { << contraction_map[i][1], contraction_map[j][1] >> :
        << i, j >> \in
          { x \in (1..Len(contraction_map)) \X (1..Len(contraction_map)) :
              /\ contraction_map[x[1]][2] = contraction_map[x[2]][2]
              /\ "'" \notin Range(contraction_map[x[1]][1])
              /\ "'" \in Range(contraction_map[x[2]][1]) } }

\* t2 is t1 with one expanded phrase written as its apostrophe contraction
IsContractedSpelling(t1, t2) ==
    \E c \in StandardContractions : \E i \in 1..Len(t1) :
        ReplacedAt(t1, t2, i, c[1], c[2])

\* t2 is t1 with one closed compound, standing as a word between separators,
\* written in its open form
IsOpenSpelling(t1, t2) ==
    \E k \in 1..Len(compounds) : \E i \in 1..Len(t1) :
        /\ ReplacedAt(t1, t2, i, compounds[k][1], compounds[k][2])
        /\ (i = 1 \/ t1[i - 1] \in Whitespace)
        /\ (i + Len(compounds[k][1]) > Len(t1)
              \/ t1[i + Len(compounds[k][1])] \in Whitespace)

\* C3: folding an already folded text leaves it unchanged:
\* map_expanded_to_contraction(map_expanded_to_contraction(t)) is
\* map_expanded_to_contraction(t).
C3_FoldIdempotent ==
    pc = "folded_again" => (ret1 = arg1 /\ ret2 = arg2)

\* C4: a text with an expanded phrase and the same text with the apostrophe
\* contraction in its place fold to the same string.
C4_SpellingsFoldAlike ==
    (pc = "fold_again" /\ IsContractedSpelling(arg1, arg2)) => ret1 = ret2

\* C5: a text with a closed compound and the same text with the open spelling
\* leave the pipeline as the same canonical token sequence.
C5_CompoundSpellingsAlike ==
    (pc \in {"print", "done"} /\ IsOpenSpelling(file1, file2)) =>
        Words(text1) = Words(text2)

TheBullFrogTokens ==
    << << "t","h","e" >>, << "b","u","l","l" >>, << "f","r","o","g" >>, << "i","s","n","t" >>, << "h","a","p","p","y" >> >>

\* C8: "The bullfrog is not happy" and "the bull frog isnt happy" both leave
\* the pipeline as (the, bull, frog, isnt, happy), and compare_texts returns
\* num_matches 5, different_words 0, word_order_similarity 1.0.
C8_BullfrogScenario ==
    (pc \in {"print", "done"}
        /\ file1 = TheBullfrogIsNotHappy /\ file2 = TheBullFrogIsntHappy) =>
        /\ Words(text1) = TheBullFrogTokens
        /\ Words(text2) = TheBullFrogTokens
        /\ results.num_matches = 5
        /\ results.different_words = Zero
        /\ results.word_order_similarity = One

\* the scenario's two documents have gone through the three stages and
\* compare_texts; the stages changed the first one
C8_Witness ==
    /\ pc = "done"
    /\ file1 = TheBullfrogIsNotHappy /\ file2 = TheBullFrogIsntHappy
    /\ text1 # file1
    /\ results.total_words = 5

(***************************************************************************)
(* Further properties of compare_texts (SpecCompare)                       *)
(***************************************************************************)
\* C11: compare_texts("", "") returns a result (no error) with total_words 0,
\* num_matches 0, different_words 0, sequence_similarity 1.0 and
\* word_order_similarity 1.0.
C11_EmptyDocuments ==
    (Called /\ arg1 = << >> /\ arg2 = << >>) =>
        ret1 = [ total_words           |-> 0,
                 num_matches           |-> 0,
                 different_words       |-> Zero,
                 sequence_similarity   |-> One,
                 word_order_similarity |-> One ]

\* the two empty texts have been compared: no token, no matching block but
\* the closing one
C11_Witness ==
    /\ Called /\ arg1 = << >> /\ arg2 = << >>
    /\ Words(arg1) = << >>
    /\ get_matching_blocks(Words(arg1), Words(arg2)) = << [a |-> 0, b |-> 0, size |-> 0] >>
    /\ ret1.total_words = 0

(***************************************************************************)
\* C13: word_order_similarity is 2 * num_matches / (len(tokens1) +
\* len(tokens2)) for the num_matches of the same result, 1.0 when both token
\* sequences are empty, and lies in [0, 1].
C13_WordOrderSimilarity ==
    Called =>
        LET total == Len(Words(arg1)) + Len(Words(arg2))
            wos   == ret1.word_order_similarity
        IN  /\ total = 0 => wos = One
            /\ total # 0 => wos = Quot(2 * ret1.num_matches, total)
            /\ ~RatLess(wos, Zero)
            /\ ~RatLess(One, wos)

\* texts of different lengths have been compared, with some but not all
\* words matched: the similarity is strictly between 0 and 1
C13_Witness ==
    /\ Called
    /\ Len(Words(arg1)) # Len(Words(arg2))
    /\ ret1.num_matches > 0
    /\ RatLess(Zero, ret1.word_order_similarity)
    /\ RatLess(ret1.word_order_similarity, One)

\* C14: different_words is exactly (len(tokens1) + len(tokens2) - 2 *
\* num_matches) / 2, unrounded: a whole number when len(tokens1) +
\* len(tokens2) is even, a whole number plus one half when it is odd.
C14_DifferentWordsExact ==
    Called =>
        LET total == Len(Words(arg1)) + Len(Words(arg2))
            dw    == ret1.different_words
        IN  /\ dw.num * 2 = (total - 2 * ret1.num_matches) * dw.den
            /\ total % 2 = 0 => dw.den = 1
            /\ total % 2 = 1 => dw.den = 2 /\ dw.num % 2 = 1

\* three words have been compared with two, one of them matched: 1.5
\* different words
C14_Witness ==
    /\ Called
    /\ Len(Words(arg1)) = 3 /\ Len(Words(arg2)) = 2
    /\ ret1.num_matches = 1
    /\ ret1.different_words = [num |-> 3, den |-> 2]

(***************************************************************************)
(* compare_texts under test on two pairs of texts that are spelled         *)
(* differently but have the same canonical tokens                          *)
(***************************************************************************)
MaxRespelledWords == 2

\* two words, each in a plain spelling and in one differing in case and in
\* punctuation inside the token
RespelledVocabulary ==
    { [plain |-> << "a" >>,      marked |-> << "A", "." >>],
      [plain |-> << "b", "c" >>, marked |-> << "B", "-", "c", "!" >>] }

SpellingStyles == {"plain", "marked", "spaced"}

\* a list of words written out in one style; "spaced" uses more whitespace
Spell(ws, style) ==
    CASE style = "plain"  -> Join([k \in 1..Len(ws) |-> ws[k].plain], << " " >>)
      [] style = "marked" -> Join([k \in 1..Len(ws) |-> ws[k].marked], << " " >>)
      [] style = "spaced" ->
            << " " >> \o Join([k \in 1..Len(ws) |-> ws[k].plain], << "\t", " " >>) \o << "\n" >>

InitRespelled ==
    /\ pc = "compare_first_pair"
    /\ \E ws1, ws2 \in WordLists(RespelledVocabulary, MaxRespelledWords) :
         \E s1, s2, s3, s4 \in SpellingStyles :
            /\ arg1 = << Spell(ws1, s1), Spell(ws2, s2) >>
            /\ arg2 = << Spell(ws1, s3), Spell(ws2, s4) >>
    /\ ret1 = None /\ ret2 = None
    /\ file1 = None /\ file2 = None /\ text1 = None /\ text2 = None
    /\ results = None
    /\ ToolIdle /\ VideoIdle

CallCompareFirstPair ==
    /\ pc = "compare_first_pair"
    /\ ret1' = compare_texts(arg1[1], arg1[2])
    /\ pc' = "compare_second_pair"
    /\ UNCHANGED <<file1, file2, text1, text2, results, arg1, arg2, ret2>>
    /\ UNCHANGED <<toolVars, videoVars>>

CallCompareSecondPair ==
    /\ pc = "compare_second_pair"
    /\ ret2' = compare_texts(arg2[1], arg2[2])
    /\ pc' = "compared_both_pairs"
    /\ UNCHANGED <<file1, file2, text1, text2, results, arg1, arg2, ret1>>
    /\ UNCHANGED <<toolVars, videoVars>>

NextRespelled == CallCompareFirstPair \/ CallCompareSecondPair

SpecRespelled == InitRespelled /\ [][NextRespelled]_vars

\* C15: sequence_similarity depends on the canonical tokens only: two pairs
\* of texts with the same canonical token sequences (spelled with other case,
\* punctuation inside tokens or whitespace) get the same value, which lies in
\* [0, 1].
C15_SequenceSimilarity ==
    (/\ pc = "compared_both_pairs"
     /\ Words(arg1[1]) = Words(arg2[1])
     /\ Words(arg1[2]) = Words(arg2[2])) =>
        /\ ret1.sequence_similarity = ret2.sequence_similarity
        /\ ~RatLess(ret1.sequence_similarity, Zero)
        /\ ~RatLess(One, ret1.sequence_similarity)

\* two differently spelled pairs with the same canonical tokens have been
\* compared; the character-level ratio of the raw texts differs between them
C15_Witness ==
    /\ pc = "compared_both_pairs"
    /\ Words(arg1[1]) = Words(arg2[1]) /\ Words(arg1[2]) = Words(arg2[2])
    /\ arg1[1] # arg2[1] /\ arg1[2] # arg2[2]
    /\ ratio(arg1[1], arg1[2]) # ratio(arg2[1], arg2[2])
    /\ RatLess(Zero, ret1.sequence_similarity)
    /\ RatLess(ret1.sequence_similarity, One)

(***************************************************************************)
(* The matcher of compare_texts under test: SequenceMatcher(None, words1,  *)
(* words2) picks its first block in the whole of both sequences, then      *)
(* get_matching_blocks returns all of them                                 *)
(***************************************************************************)
InitMatcher ==
    /\ pc = "find_longest_match"
    /\ \E p \in ComparePairs : arg1 = p[1] /\ arg2 = p[2]
    /\ ret1 = None /\ ret2 = None
    /\ file1 = None /\ file2 = None /\ text1 = None /\ text2 = None
    /\ results = None
    /\ ToolIdle /\ VideoIdle

\* the first find_longest_match call of get_matching_blocks: queue = [(0, la, 0, lb)]
CallFindLongestMatch ==
    /\ pc = "find_longest_match"
    /\ ret1' = find_longest_match(Words(arg1), Words(arg2), ChainB(Words(arg2)),
                                  0, Len(Words(arg1)), 0, Len(Words(arg2)))
    /\ pc' = "get_matching_blocks"
    /\ UNCHANGED <<file1, file2, text1, text2, results, arg1, arg2, ret2>>
    /\ UNCHANGED <<toolVars, videoVars>>

CallGetMatchingBlocks ==
    /\ pc = "get_matching_blocks"
    /\ ret2' = get_matching_blocks(Words(arg1), Words(arg2))
    /\ pc' = "matched"
    /\ UNCHANGED <<file1, file2, text1, text2, results, arg1, arg2, ret1>>
    /\ UNCHANGED <<toolVars, videoVars>>

NextMatcher == CallFindLongestMatch \/ CallGetMatchingBlocks

SpecMatcher == InitMatcher /\ [][NextMatcher]_vars

\* a[i .. i+k-1] = b[j .. j+k-1] (0-based starts), inside both sequences
CommonRun(a, b, i, j, k) ==
    /\ i + k <= Len(a) /\ j + k <= Len(b)
    /\ \A d \in 1..k : a[i + d] = b[j + d]

\* C16: the block the search picks is a longest common contiguous run, and
\* among the longest ones the one starting earliest in the first sequence
\* and, among those, earliest in the second.
C16_TieBreak ==
    pc \in {"get_matching_blocks", "matched"} =>
        LET a == Words(arg1)
            b == Words(arg2)
            m == ret1
        IN  /\ CommonRun(a, b, m.a, m.b, m.size)
            /\ ~ \E i \in 0..(Len(a) - m.size - 1), j \in 0..(Len(b) - m.size - 1) :
                    CommonRun(a, b, i, j, m.size + 1)
            /\ m.size > 0 =>
                  ~ \E i \in 0..(Len(a) - m.size), j \in 0..(Len(b) - m.size) :
                        /\ i < m.a \/ (i = m.a /\ j < m.b)
                        /\ CommonRun(a, b, i, j, m.size)
            /\ m.size = 0 => m.a = 0 /\ m.b = 0

\* one row of the longest-common-subsequence table: prev is the row of the
\* prefix of s without its last element x, the result the row with it
LCSRow(x, l, prev) ==
    CHOOSE row \in
        { SubSeq([j \in 1..Len(l) |->
                    LET S == {cand[k] : k \in 1..j}
                    IN  CHOOSE v \in S : \A w \in S : w <= v], 1, Len(l))
          : cand \in { SubSeq([k \in 1..Len(l) |->
                                 IF x = l[k]
                                 THEN Max(prev[k], (IF k = 1 THEN 0 ELSE prev[k - 1]) + 1)
                                 ELSE prev[k]], 1, Len(l)) } } : TRUE

RECURSIVE LCSRows(_, _, _, _)
LCSRows(s, l, i, prev) ==
    IF i > Len(s) THEN prev
    ELSE CHOOSE out \in { LCSRows(s, l, i + 1, row) : row \in {LCSRow(s[i], l, prev)} } : TRUE

\* the number of leading elements two sequences share
CommonPrefix(a, b) ==
    CHOOSE k \in 0..Len(a) :
        /\ k <= Len(b)
        /\ \A d \in 1..k : a[d] = b[d]
        /\ (k < Len(a) /\ k < Len(b)) => a[k + 1] # b[k + 1]

\* the length of a longest common subsequence of a and b: the shared prefix,
\* then the table of the rests, one row per element of the shorter one
LCSLength(a, b) ==
    LET p  == CommonPrefix(a, b)
        ra == SubSeq(a, p + 1, Len(a))
        rb == SubSeq(b, p + 1, Len(b))
        s  == IF Len(ra) <= Len(rb) THEN ra ELSE rb
        l  == IF Len(ra) <= Len(rb) THEN rb ELSE ra
    IN  IF Len(s) = 0 THEN p
        ELSE p + LCSRows(s, l, 1, [j \in 1..Len(l) |-> 0])[Len(l)]

\* C17: num_matches, the sum of the sizes of the matching blocks, is the
\* length of a longest common subsequence of the two canonical token
\* sequences.
C17_MatchesAreLCS ==
    pc = "matched" =>
        NumMatches(ret2) = LCSLength(Words(arg1), Words(arg2))

(***************************************************************************)
(* split_compound_words under test: called on a text with the table in the *)
(* order of the source, then with the table in another order               *)
(***************************************************************************)
MaxSplitWords == 2

w_Bullfrog == << "B","u","l","l","f","r","o","g" >>

w_bullfrogs == << "b","u","l","l","f","r","o","g","s" >>

w_previewed == << "p","r","e","v","i","e","w","e","d" >>

w_preview == << "p","r","e","v","i","e","w" >>

w_Review == << "R","e","v","i","e","w" >>

w_2undo == << "2","u","n","d","o" >>

w_undo_underscore == << "u","n","d","o","_" >>

w_birthdaycake == << "b","i","r","t","h","d","a","y","c","a","k","e" >>

\* keys of the table in lower and mixed case, keys next to a letter, a digit
\* or an underscore, and a key that contains another key
SplitVocabulary ==
    { w_bullfrog, w_Bullfrog, w_bullfrogs, w_previewed, w_preview, w_Review,
      w_2undo, w_undo_underscore, w_birthdaycake, w_not }

\* the words of a text are separated by a space or by a hyphen
SplitTexts ==
    UNION { {Join(ws, << " " >>), Join(ws, << "-" >>)} :
            ws \in WordLists(SplitVocabulary, MaxSplitWords) }

\* the table in another order: 0 is the reversed table, n > 0 the table with
\* its n-th entry moved to the front
Reordered(table, order) ==
    IF order = 0
    THEN SubSeq([i \in 1..Len(table) |-> table[Len(table) + 1 - i]], 1, Len(table))
    ELSE << table[order] >> \o SubSeq(table, 1, order - 1)
                            \o SubSeq(table, order + 1, Len(table))

TableOrders == 0..Len(compounds)

\* every text with the reversed table, every one-word text with every order
SplitInputs == (SplitTexts \X {0}) \cup (SplitVocabulary \X TableOrders)

InitSplit ==
    /\ pc = "split_compound_words"
    /\ \E p \in SplitInputs : arg1 = p[1] /\ arg2 = p[2]
    /\ ret1 = None /\ ret2 = None
    /\ file1 = None /\ file2 = None /\ text1 = None /\ text2 = None
    /\ results = None
    /\ ToolIdle /\ VideoIdle

CallSplitCompoundWords ==
    /\ pc = "split_compound_words"
    /\ ret1' = split_compound_words(arg1)
    /\ pc' = "split_reordered"
    /\ UNCHANGED <<file1, file2, text1, text2, results, arg1, arg2, ret2>>
    /\ UNCHANGED <<toolVars, videoVars>>

\* the same loop over the entries of compounds taken in the order arg2
CallSplitReordered ==
    /\ pc = "split_reordered"
    /\ ret2' = SplitEntries(arg1, Reordered(compounds, arg2), 1, Len(compounds))
    /\ pc' = "split_both"
    /\ UNCHANGED <<file1, file2, text1, text2, results, arg1, arg2, ret1>>
    /\ UNCHANGED <<toolVars, videoVars>>

NextSplit == CallSplitCompoundWords \/ CallSplitReordered

SpecSplit == InitSplit /\ [][NextSplit]_vars

\* the maximal runs of word characters of text and, one by one, the characters
\* between them, in order from position i
RECURSIVE SegmentsFrom(_, _)
SegmentsFrom(text, i) ==
    IF i > Len(text) THEN << >>
    ELSE IF text[i] \notin WordChars THEN << << text[i] >> >> \o SegmentsFrom(text, i + 1)
    ELSE LET e == CHOOSE x \in i..Len(text) :
                     /\ \A d \in i..x : text[d] \in WordChars
                     /\ (x = Len(text) \/ text[x + 1] \notin WordChars)
         IN  << SubSeq(text, i, e) >> \o SegmentsFrom(text, e + 1)

Segments(text) == SegmentsFrom(text, 1)

IsCompound(w) == \E n \in 1..Len(compounds) : compounds[n][1] = Lower(w)

\* a key of the table lies inside the longer word w
HoldsCompound(w) ==
    \E n \in 1..Len(compounds) :
        LET key == compounds[n][1]
        IN  /\ Len(key) < Len(w)
            /\ \E i \in 1..(Len(w) - Len(key) + 1) :
                   SubSeq(Lower(w), i, i + Len(key) - 1) = key

\* the split form of a word that is a key in any case, any other segment as
\* it is
SplitForm(w) ==
    IF IsCompound(w)
    THEN compounds[CHOOSE n \in 1..Len(compounds) : compounds[n][1] = Lower(w)][2]
    ELSE w

WordwiseSplit(text) ==
    LET segs == Segments(text)
    IN  Flatten([n \in 1..Len(segs) |-> SplitForm(segs[n])])

CountSegment(text, w) ==
    LET segs == Segments(text)
    IN  Cardinality({n \in 1..Len(segs) : segs[n] = w})

\* C18 as stated: every whole word that is a key is replaced by its split
\* form, and a key next to another letter, digit or underscore is left
\* unchanged: the word holding it is in the output as often as in the text.
C18_EmbeddedKeysUnchanged ==
    pc \in {"split_reordered", "split_both"} =>
        /\ ret1 = WordwiseSplit(arg1)
        /\ \A w \in Range(Segments(arg1)) :
              HoldsCompound(w) => CountSegment(ret1, w) >= CountSegment(arg1, w)

\* C18 amended: exactly the whole words that are keys, in any case, are
\* replaced by their split forms; every other word, one that holds a key next
\* to another word character included, and every other character is kept.
\* A key inside a longer word changes only when the longer word is a key
\* too, as "review" inside "preview".
C18_WholeWordsOnly ==
    pc \in {"split_reordered", "split_both"} =>
        /\ ret1 = WordwiseSplit(arg1)
        /\ \A w \in Range(Segments(arg1)) :
              (HoldsCompound(w) /\ ~IsCompound(w)) =>
                  CountSegment(ret1, w) >= CountSegment(arg1, w)

\* "bullfrogs Bullfrog" has been split: the key inside the longer word is
\* kept, the capitalised whole word is replaced
C18_Witness ==
    /\ pc \in {"split_reordered", "split_both"}
    /\ arg1 = Join(<< w_bullfrogs, w_Bullfrog >>, << " " >>)
    /\ HoldsCompound(w_bullfrogs) /\ IsCompound(w_Bullfrog)
    /\ ret1 = Join(<< w_bullfrogs, w_bull_frog >>, << " " >>)

\* C19: the output of split_compound_words does not depend on the order in
\* which the entries of the table are applied.
\* No entry finds a whole word to replace in the key or in the split form of
\* the entry that was moved.
C19_OrderIndependent ==
    pc = "split_both" =>
        /\ ret2 = ret1
        /\ arg2 > 0 =>
              \A m \in (1..Len(compounds)) \ {arg2} :
                 /\ SubWord(compounds[arg2][1], compounds[m][1], {}, compounds[m][2])
                       = compounds[arg2][1]
                 /\ SubWord(compounds[arg2][2], compounds[m][1], {}, compounds[m][2])
                       = compounds[arg2][2]

\* "bullfrog preview" has been split with the table reversed, so that
\* "review" and "preview" were tried in the other order, both spellings
\* rewritten
C19_Witness ==
    /\ pc = "split_both"
    /\ arg1 = Join(<< w_bullfrog, w_preview >>, << " " >>)
    /\ arg2 = 0
    /\ ret2 = Join(<< w_bull_frog, << "p","r","e"," ","v","i","e","w" >> >>, << " " >>)

(* normalize_word under test: called on a token, then on its own result    *)
(***************************************************************************)
MaxTokenLen == 3

\* a letter in both cases, a letter without an accented form, punctuation,
\* the combining accent, a precomposed letter and the two compatibility
\* characters
TokenAlphabet == { "e", "E", "b", ".", Acute, "U+00C9", "U+2026", "U+FB01" }

\* the items str.split() can return: non-empty and free of whitespace
Tokens == UNION {[1..k -> TokenAlphabet] : k \in 1..MaxTokenLen}

InitNormalize ==
    /\ pc = "normalize_word"
    /\ arg1 \in Tokens
    /\ arg2 = None /\ ret1 = None /\ ret2 = None
    /\ file1 = None /\ file2 = None /\ text1 = None /\ text2 = None
    /\ results = None
    /\ ToolIdle /\ VideoIdle

CallNormalizeWord ==
    /\ pc = "normalize_word"
    /\ ret1' = normalize_word(arg1)
    /\ pc' = "normalize_word_again"
    /\ UNCHANGED <<file1, file2, text1, text2, results, arg1, arg2, ret2>>
    /\ UNCHANGED <<toolVars, videoVars>>

CallNormalizeWordAgain ==
    /\ pc = "normalize_word_again"
    /\ ret2' = normalize_word(ret1)
    /\ pc' = "normalized"
    /\ UNCHANGED <<file1, file2, text1, text2, results, arg1, arg2, ret1>>
    /\ UNCHANGED <<toolVars, videoVars>>

NextNormalize == CallNormalizeWord \/ CallNormalizeWordAgain

SpecNormalize == InitNormalize /\ [][NextNormalize]_vars

\* C12: normalize_word is idempotent: normalising the canonical form of a
\* token again returns it unchanged.
C12_NormalizeIdempotent == pc = "normalized" => ret2 = ret1

(***************************************************************************)
(* clean_text under test: called on a text, then on its own result         *)
(***************************************************************************)
MaxCleanPieces == 3

\* the marker in lower case, in upper case and capitalised before a comma, a
\* letter, the underscore, a space and two more characters of the class that
\* follows the marker
CleanPieces ==
    { Inaudible, << "I", "N", "A", "U", "D", "I", "B", "L", "E" >>, w_Inaudible,
      << "s" >>, << "_" >>, << " " >>, << "-" >>, << "!" >> }

\* the pieces written one after the other, with nothing between them
CleanTexts == {Flatten(ps) : ps \in WordLists(CleanPieces, MaxCleanPieces)}

InitClean ==
    /\ pc = "clean_text"
    /\ arg1 \in CleanTexts
    /\ arg2 = None /\ ret1 = None /\ ret2 = None
    /\ file1 = None /\ file2 = None /\ text1 = None /\ text2 = None
    /\ results = None
    /\ ToolIdle /\ VideoIdle

CallCleanText ==
    /\ pc = "clean_text"
    /\ ret1' = clean_text(arg1)
    /\ pc' = "clean_text_again"
    /\ UNCHANGED <<file1, file2, text1, text2, results, arg1, arg2, ret2>>
    /\ UNCHANGED <<toolVars, videoVars>>

CallCleanTextAgain ==
    /\ pc = "clean_text_again"
    /\ ret2' = clean_text(ret1)
    /\ pc' = "cleaned_again"
    /\ UNCHANGED <<file1, file2, text1, text2, results, arg1, arg2, ret1>>
    /\ UNCHANGED <<toolVars, videoVars>>

NextClean == CallCleanText \/ CallCleanTextAgain

SpecClean == InitClean /\ [][NextClean]_vars

\* the marker is written at position i of text, in any case
MarkerAt(text, i) ==
    /\ i + Len(Inaudible) - 1 <= Len(text)
    /\ Lower(SubSeq(text, i, i + Len(Inaudible) - 1)) = Inaudible

\* ... as a whole word: no word character before it or after it
WholeMarkerAt(text, i) ==
    /\ MarkerAt(text, i)
    /\ (i = 1 \/ text[i - 1] \notin WordChars)
    /\ (i + Len(Inaudible) > Len(text) \/ text[i + Len(Inaudible)] \notin WordChars)

\* the positions of the whole-word marker at i and of the run of trailing
\* punctuation that follows it
MarkerRegion(text, i) ==
    LET after == i + Len(Inaudible)
    IN  {p \in i..Len(text) :
            p < after \/ \A q \in after..p : text[q] \in TrailingPunctuation}

Removed(text) ==
    UNION {MarkerRegion(text, i) : i \in {x \in 1..Len(text) : WholeMarkerAt(text, x)}}

\* text without the characters at the removed positions
Kept(text) ==
    LET keep == SelectSeq([p \in 1..Len(text) |-> p], LAMBDA p : p \notin Removed(text))
    IN  [n \in 1..Len(keep) |-> text[keep[n]]]

\* C20: clean_text removes every whole-word marker, in any case, with the run
\* of . , ; : ! ? " ' - after it and nothing else, keeping the other
\* characters in order; a marker inside a longer word stays; the output has
\* no whole-word marker left, and cleaning it again changes nothing.
C20_CleanText ==
    pc = "cleaned_again" =>
        /\ ret1 = Kept(arg1)
        /\ \A i \in 1..Len(arg1) :
              (MarkerAt(arg1, i) /\ ~WholeMarkerAt(arg1, i)) =>
                  (i..(i + Len(Inaudible) - 1)) \cap Removed(arg1) = {}
        /\ ~ \E i \in 1..Len(ret1) : WholeMarkerAt(ret1, i)
        /\ ret2 = ret1

\* "Inaudible,inaudibles" has been cleaned: the whole-word marker and the
\* comma after it are gone, the marker inside "inaudibles" is kept
C20_Witness ==
    /\ pc = "cleaned_again"
    /\ arg1 = w_Inaudible \o Inaudible \o << "s" >>
    /\ WholeMarkerAt(arg1, 1)
    /\ MarkerAt(arg1, 11) /\ ~WholeMarkerAt(arg1, 11)
    /\ ret1 = Inaudible \o << "s" >>

(***************************************************************************)
(* Properties of the two main() pipelines (Spec)                           *)
(***************************************************************************)
ThreeStages == << "clean_text", "map_expanded_to_contraction", "split_compound_words" >>

IsPrefix(s, t) == Len(s) <= Len(t) /\ SubSeq(t, 1, Len(s)) = s

\* a document's text after the three stages in their order
Canonical(content) ==
    split_compound_words(map_expanded_to_contraction(clean_text(content)))

\* C21: in compare.py and in visualize_comparison.py each of the two texts
\* passes through clean_text, then map_expanded_to_contraction, then
\* split_compound_words, in that order and each exactly once, before
\* compare_texts or visualize_word_comparison tokenises it.
C21_StagesInOrder ==
    /\ pc # "exit" => (IsPrefix(stages[1], ThreeStages) /\ stages[2] = stages[1])
    /\ pc \in {"compare", "print", "done", "visualize", "visualized"} =>
          /\ stages = << ThreeStages, ThreeStages >>
          /\ text1 = Canonical(file1)
          /\ text2 = Canonical(file2)

\* visualize_comparison.py has drawn two documents that the stages changed
C21_Witness ==
    /\ pc = "visualized"
    /\ tool = "visualize_comparison.py"
    /\ stages = << ThreeStages, ThreeStages >>
    /\ text1 # file1
    /\ text2 # file2
    /\ map_expanded_to_contraction(clean_text(file1)) # clean_text(file1)

\* the document cannot be read: its reader raises, or no reader takes it
CannotRead(cond) == cond.raises \/ cond.ext \notin { ".docx", ".txt" }

\* reading one of the two selected documents fails
ReadFails == CannotRead(reads[1]) \/ CannotRead(reads[2])

\* C22: if reading either document fails (docx parse error, text read error,
\* unsupported extension) the program terminates with exit status 1, at the
\* read step, and compare_texts is never invoked.
C22_ReadFailureExits ==
    /\ [](ReadFails =>
            /\ pc \in {"read", "exit"}
            /\ results = None
            /\ pc = "exit" => exit_status = 1)
    /\ [][(ReadFails /\ pc = "read") => (pc' = "exit" /\ exit_status' = 1)]_vars

\* the first document was read and cleaned, the second one is a .docx that
\* python-docx cannot parse, and the process has exited
C22_Witness ==
    /\ pc = "exit"
    /\ ~reads[1].raises
    /\ reads[2] = [ext |-> ".docx", raises |-> TRUE]
    /\ stages = << << "clean_text" >>, << >> >>
    /\ exit_status = 1

(***************************************************************************)
(* get_user_selection of video.py and of wma.py under test: called on an   *)
(* offered file list and a limit, the user typing one line per round       *)
(***************************************************************************)
MaxOffered == 4

MaxNumbers == 4

\* wma.py main() passes max_selections=3; 1 is a caller's smaller limit
SelectionLimits == { 1, 3 }

\* find_video_files: n files "*.mp4" and "*.MP4", a file being (stem, extension)
VideoFiles(n) == [k \in 1..n |-> << k, IF k % 2 = 1 THEN ".mp4" ELSE ".MP4" >>]

\* find_audio_files: n files, the last m of them .mp3, the others .wma or .DSS
AudioFiles(n, m) ==
    [k \in 1..n |-> << k, IF k > n - m THEN ".mp3"
                          ELSE IF k % 2 = 1 THEN ".wma" ELSE ".DSS" >>]

OfferedLists(t) ==
    IF t = "video.py" THEN { VideoFiles(n) : n \in 0..MaxOffered }
    ELSE UNION { { AudioFiles(n, m) : m \in 0..n } : n \in 0..MaxOffered }

\* f.lower().endswith(('.wma', '.dss'))
Convertible(f) == f[2] \in { ".wma", ".WMA", ".dss", ".DSS" }

\* [f for f in files if pred(f)]
RECURSIVE SelectFiles(_, _)
SelectFiles(files, n) ==
    IF n = 0 THEN << >>
    ELSE SelectFiles(files, n - 1)
         \o (IF Convertible(files[n]) THEN << files[n] >> ELSE << >>)

\* the lines the user can type into a list of n files: 'all' in any case, a
\* line with a token int() rejects, Ctrl-C, and up to MaxNumbers numbers
\* (the empty line among them), 0 and n + 1 being out of range
InputLines(n) ==
    { [kind |-> k, numbers |-> << >>] : k \in { "all", "invalid", "interrupt" } }
        \cup { [kind |-> "numbers", numbers |-> s] :
               s \in UNION { [1..len -> 0..(n + 1)] : len \in 0..MaxNumbers } }

InitSelection ==
    /\ pc = "get_user_selection"
    /\ tool \in { "video.py", "wma.py" }
    /\ arg1 \in OfferedLists(tool)
    /\ arg2 \in SelectionLimits
    /\ ret1 = None /\ ret2 = None
    /\ file1 = None /\ file2 = None /\ text1 = None /\ text2 = None
    /\ results = None
    /\ reads = None /\ stages = None /\ exit_status = None
    /\ VideoIdle

\* if not video_files: return []; otherwise the prompt is printed
CallGetUserSelection ==
    /\ pc = "get_user_selection"
    /\ IF arg1 = << >>
          THEN ret1' = << >> /\ pc' = "returned"
          ELSE ret1' = ret1 /\ pc' = "input"
    /\ UNCHANGED <<file1, file2, text1, text2, results, arg1, arg2, ret2>>
    /\ UNCHANGED <<toolVars, videoVars>>

\* the 'all' branch: video.py takes video_files itself, wma.py the .wma and
\* .dss files of audio_files
AllFiles(t, files) ==
    IF t = "video.py" THEN files ELSE SelectFiles(files, Len(files))

\* one round of the while True loop: a line is read and taken or refused
EnterSelection ==
    /\ pc = "input"
    /\ \E line \in InputLines(Len(arg1)) :
          CASE line.kind = "interrupt" ->
                  \* except KeyboardInterrupt: sys.exit(0)
                  /\ pc' = "exit" /\ exit_status' = 0 /\ ret1' = ret1
            [] line.kind = "invalid" ->
                  \* except ValueError: the loop asks again
                  /\ pc' = "input" /\ exit_status' = exit_status /\ ret1' = ret1
            [] line.kind = "all" ->
                  /\ ret1' = AllFiles(tool, arg1)
                  /\ pc' = "returned" /\ exit_status' = exit_status
            [] OTHER ->
                  LET ns == line.numbers
                      in_range == \A i \in 1..Len(ns) : 1 <= ns[i] /\ ns[i] <= Len(arg1)
                      \* an out-of-range number empties selected_indices
                      selected_indices == IF in_range THEN [i \in 1..Len(ns) |-> ns[i] - 1]
                                          ELSE << >>
                  IN  IF selected_indices # << >> /\ Len(selected_indices) <= arg2
                      THEN /\ ret1' = [i \in 1..Len(selected_indices) |->
                                          arg1[selected_indices[i] + 1]]
                           /\ pc' = "returned" /\ exit_status' = exit_status
                      ELSE /\ pc' = "input" /\ exit_status' = exit_status /\ ret1' = ret1
    /\ UNCHANGED <<file1, file2, text1, text2, results, arg1, arg2, ret2>>
    /\ UNCHANGED <<tool, reads, stages, videoVars>>

NextSelection ==
    \/ CallGetUserSelection
    \/ EnterSelection

SpecSelection == InitSelection /\ [][NextSelection]_vars

\* C23: get_user_selection never returns more than max_selections files, for
\* every sequence of user inputs (numbers, 'all', invalid entries followed by
\* retries), and every returned element is a member of the offered list.
C23_SelectionWithinLimit ==
    pc = "returned" =>
        /\ Len(ret1) <= arg2
        /\ \A i \in 1..Len(ret1) : \E k \in 1..Len(arg1) : ret1[i] = arg1[k]

(***************************************************************************)
(* The tokens compare_texts aligns (SpecCompare)                           *)
(***************************************************************************)
\* the whitespace-separated items of a text that keep a character when
\* normalize_word has stripped the punctuation
RECURSIVE NonEmptyTokens(_)
NonEmptyTokens(words) ==
    IF words = << >> THEN << >>
    ELSE (IF Head(words) # << >> THEN << Head(words) >> ELSE << >>)
         \o NonEmptyTokens(Tail(words))

\* C28: every token of the two sequences compare_texts aligns is a non-empty
\* string: whitespace-separated items that consist only of punctuation do not
\* appear as tokens and are not counted in total_words or num_matches.
C28_TokensNonEmpty ==
    Called =>
        /\ \A i \in 1..Len(Words(arg1)) : Words(arg1)[i] # << >>
        /\ \A i \in 1..Len(Words(arg2)) : Words(arg2)[i] # << >>
        /\ ret1.total_words = Max(Len(NonEmptyTokens(Words(arg1))),
                                  Len(NonEmptyTokens(Words(arg2))))
        /\ ret1.num_matches <= Min(Len(NonEmptyTokens(Words(arg1))),
                                   Len(NonEmptyTokens(Words(arg2))))

(***************************************************************************)

(* Further properties of the matching blocks (SpecMatcher)                 *)
(***************************************************************************)
\* the matching blocks without the closing dummy block
RealBlocks(blocks) == SubSeq(blocks, 1, Len(blocks) - 1)

\* C27: the matching blocks compare_texts counts are non-overlapping and
\* strictly increasing in both sequences, the matched pairs are equal tokens
\* (so they form a common subsequence of the two token sequences), and
\* num_matches is at most min(len1, len2); the search ends with the dummy
\* block (len1, len2, 0).
C27_BlocksAreCommonSubsequence ==
    pc = "matched" =>
        LET words1 == Words(arg1)
            words2 == Words(arg2)
            blocks == RealBlocks(ret2)
        IN  /\ ret2[Len(ret2)] = [a |-> Len(words1), b |-> Len(words2), size |-> 0]
            /\ \A k \in 1..Len(blocks) :
                  /\ blocks[k].size > 0
                  /\ blocks[k].a >= 0 /\ blocks[k].a + blocks[k].size <= Len(words1)
                  /\ blocks[k].b >= 0 /\ blocks[k].b + blocks[k].size <= Len(words2)
                  /\ \A d \in 1..blocks[k].size :
                        words1[blocks[k].a + d] = words2[blocks[k].b + d]
            /\ \A k \in 1..(Len(blocks) - 1) :
                  /\ blocks[k].a + blocks[k].size <= blocks[k + 1].a
                  /\ blocks[k].b + blocks[k].size <= blocks[k + 1].b
            /\ NumMatches(ret2) <= Min(Len(words1), Len(words2))

\* two separate blocks were found, with unmatched words between them
C27_Witness ==
    /\ pc = "matched"
    /\ Len(ret2) >= 3
    /\ ret2[1].a + ret2[1].size < ret2[2].a
    /\ NumMatches(ret2) < Min(Len(Words(arg1)), Len(Words(arg2)))

(***************************************************************************)

(* visualize_word_comparison under test: called on two texts, and          *)
(* compare_texts called on the same two texts                              *)
(***************************************************************************)
\* a page of the word "x", then the word "a"
PageOfXThenA ==
    [i \in 1..(2 * WordsPerPage + 1) |->
        IF i = 2 * WordsPerPage + 1 THEN "a" ELSE IF i % 2 = 1 THEN "x" ELSE " "]

PageLetters == << "b", "c", "d", "e", "f", "g", "h", "i", "j", "k" >>

\* a page and one word more, the words being letters in turn
PageAndAWord ==
    [i \in 1..(2 * WordsPerPage + 1) |->
        IF i % 2 = 1 THEN PageLetters[(((i + 1) \div 2) % Len(PageLetters)) + 1] ELSE " "]

VisualizePairs ==
    (ShortTexts \X ShortTexts)
        \cup { << CatsAndDogs, DogsAndCats >>, << DashText, DashText >>,
               << LongText, << "a" >> >>, << AThenX, XThenLongText >>,
               << PageOfXThenA, << "a" >> >>, << PageAndAWord, PageAndAWord >> }

InitVisualize ==
    /\ pc = "visualize_word_comparison"
    /\ \E p \in VisualizePairs : arg1 = p[1] /\ arg2 = p[2]
    /\ ret1 = None /\ ret2 = None
    /\ file1 = None /\ file2 = None /\ text1 = None /\ text2 = None
    /\ results = None
    /\ ToolIdle /\ VideoIdle

CallVisualizeWordComparison ==
    /\ pc = "visualize_word_comparison"
    /\ ret1' = visualize_word_comparison(arg1, arg2)
    /\ pc' = "compare_texts"
    /\ UNCHANGED <<file1, file2, text1, text2, results, arg1, arg2, ret2>>
    /\ UNCHANGED <<toolVars, videoVars>>

CallCompareTextsOnSame ==
    /\ pc = "compare_texts"
    /\ ret2' = compare_texts(arg1, arg2)
    /\ pc' = "compared_same"
    /\ UNCHANGED <<file1, file2, text1, text2, results, arg1, arg2, ret1>>
    /\ UNCHANGED <<toolVars, videoVars>>

NextVisualize == CallVisualizeWordComparison \/ CallCompareTextsOnSame

SpecVisualize == InitVisualize /\ [][NextVisualize]_vars

\* the green lines of all the pages
RECURSIVE EqualLinks(_)
EqualLinks(pages) ==
    IF Len(pages) = 0 THEN 0
    ELSE pages[Len(pages)].green + EqualLinks(SubSeq(pages, 1, Len(pages) - 1))

\* C29: the number of 'equal' word links visualize_word_comparison draws,
\* summed over all of its 100-word pages, equals num_matches of compare_texts
\* for the same two texts.
C29_LinksAreMatches ==
    pc = "compared_same" => EqualLinks(ret1) = ret2.num_matches

(***************************************************************************)

(* video.py: transcribe_audio and transcribe_audio_chunks_parallel under   *)
(* test.  A file above the limit is split into chunk files, the chunks are *)
(* transcribed by the workers of a ThreadPoolExecutor while the calling    *)
(* thread collects the results as they complete, and the chunk files are   *)
(* cleaned up.                                                             *)
(***************************************************************************)
MaxChunks == 4

MAX_WORKERS == 3

CHUNK_DURATION_MS == 300000

max_size == 26214400

\* a Python value that is None or a str
PyNone == [none |-> TRUE, text |-> << >>]

PyStr(t) == [none |-> FALSE, text |-> t]

DigitChars == << "1", "2", "3", "4", "5", "6", "7", "8", "9" >>

\* transcript.text of chunk i; the second chunk is silent
ChunkText(i) == IF i = 2 THEN << >> ELSE << "t", DigitChars[i] >>

\* audio files at and above the limit, of durations that end on and just
\* after a chunk boundary
AudioInputs ==
    [file_size : { max_size, max_size + 1 },
     total_duration : { k * CHUNK_DURATION_MS : k \in 1..MaxChunks }
                        \cup { (MaxChunks - 1) * CHUNK_DURATION_MS + 1 }]

\* num_chunks = (total_duration + chunk_duration_ms - 1) // chunk_duration_ms
num_chunks(total_duration) ==
    (total_duration + CHUNK_DURATION_MS - 1) \div CHUNK_DURATION_MS

\* the chunk files "{base_name}_chunk_{i+1:03d}.mp3" for i in range(n), by number
ChunkFiles(n) == [i \in 1..n |-> i]

InitChunks ==
    /\ \/ /\ pc = "transcribe_audio"
          /\ arg1 \in AudioInputs
          /\ arg2 \in [entry : { "transcribe_audio" }, api_key : BOOLEAN]
          /\ chunk_files = << >>
          /\ disk = {}
       \/ /\ pc = "transcribe_audio_chunks_parallel"
          /\ \E n \in 0..MaxChunks :
                /\ arg1 = ChunkFiles(n)
                /\ chunk_files = ChunkFiles(n)
                /\ disk = 1..n
          /\ arg2 = [entry |-> "transcribe_audio_chunks_parallel", api_key |-> TRUE]
    /\ futures = << >>
    /\ transcriptions = << >>
    /\ ret1 = None /\ ret2 = None
    /\ file1 = None /\ file2 = None /\ text1 = None /\ text2 = None
    /\ results = None
    /\ ToolIdle
    /\ processed_files = None /\ failed_files = None

\* transcribe_audio(file_path) up to the split, or to its return for a file
\* within the limit
CallTranscribeAudio ==
    /\ pc = "transcribe_audio"
    /\ IF ~arg2.api_key
          THEN ret2' = PyNone /\ pc' = "returned"
          ELSE IF arg1.file_size > max_size
          THEN ret2' = ret2 /\ pc' = "split_audio_file"
          ELSE \* client.audio.transcriptions.create returns a text or raises
               /\ ret2' \in { PyStr(ChunkText(1)), PyStr(ChunkText(2)), PyNone }
               /\ pc' = "returned"
    /\ UNCHANGED <<file1, file2, text1, text2, results, arg1, arg2, ret1>>
    /\ UNCHANGED <<toolVars, videoVars>>

\* chunk_files = split_audio_file(file_path); if not chunk_files: return None.
\* failing = 0: AudioSegment.from_file raises; failing = k: the export of
\* chunk k raises after the chunks before it were written; failing =
\* num_chunks + 1: nothing raises
SplitAudioFile ==
    /\ pc = "split_audio_file"
    /\ \E failing \in 0..(num_chunks(arg1.total_duration) + 1) :
          LET n == num_chunks(arg1.total_duration)
          IN  IF failing <= n
              THEN /\ disk' = disk \cup 1..(failing - 1)
                   /\ chunk_files' = << >>
                   /\ ret2' = PyNone
                   /\ pc' = "returned"
              ELSE /\ disk' = disk \cup 1..n
                   /\ chunk_files' = ChunkFiles(n)
                   /\ ret2' = ret2
                   /\ pc' = "transcribe_audio_chunks_parallel"
    /\ UNCHANGED <<file1, file2, text1, text2, results, arg1, arg2, ret1>>
    /\ UNCHANGED <<toolVars, futures, transcriptions, processed_files, failed_files>>

\* where transcribe_audio_chunks_parallel returns to
AfterParallel ==
    IF arg2.entry = "transcribe_audio" THEN "cleanup_chunk_files" ELSE "returned"

\* if not chunk_files: return None; transcriptions = [None] * len(chunk_files);
\* every chunk is submitted to the executor
SubmitChunks ==
    /\ pc = "transcribe_audio_chunks_parallel"
    /\ IF chunk_files = << >>
          THEN /\ ret2' = PyNone
               /\ pc' = AfterParallel
               /\ UNCHANGED <<futures, transcriptions>>
          ELSE /\ transcriptions' = [i \in 1..Len(chunk_files) |-> PyNone]
               /\ futures' = [i \in 1..Len(chunk_files) |->
                                 [state |-> "pending", result |-> PyNone,
                                  rank |-> 0, yielded |-> FALSE]]
               /\ ret2' = ret2
               /\ pc' = "as_completed"
    /\ UNCHANGED <<file1, file2, text1, text2, results, arg1, arg2, ret1>>
    /\ UNCHANGED <<toolVars, disk, chunk_files, processed_files, failed_files>>

InState(st) == { i \in 1..Len(futures) : futures[i].state = st }

\* a free worker takes the oldest queued task
StartChunk ==
    /\ pc \in { "as_completed", "shutdown" }
    /\ InState("pending") # {}
    /\ Cardinality(InState("running")) < MAX_WORKERS
    /\ LET i == CHOOSE x \in InState("pending") : \A y \in InState("pending") : x <= y
       IN  futures' = [futures EXCEPT ![i].state = "running"]
    /\ UNCHANGED <<pc, file1, file2, text1, text2, results, arg1, arg2, ret1, ret2>>
    /\ UNCHANGED <<toolVars, disk, chunk_files, transcriptions, processed_files, failed_files>>

\* transcribe_chunk(chunk_file, chunk_index, total_chunks) returns
\* (chunk_index, transcript.text), or (chunk_index, None) when the call raises
FinishChunk ==
    /\ pc \in { "as_completed", "shutdown" }
    /\ \E i \in InState("running") : \E result \in { PyStr(ChunkText(i)), PyNone } :
          futures' = [futures EXCEPT ![i].state = "done", ![i].result = result,
                                     ![i].rank = Cardinality(InState("done")) + 1]
    /\ UNCHANGED <<pc, file1, file2, text1, text2, results, arg1, arg2, ret1, ret2>>
    /\ UNCHANGED <<toolVars, disk, chunk_files, transcriptions, processed_files, failed_files>>

\* transcriptions filled in the order the results arrive
PlaceInArrivalOrder(list, chunk_index, transcription) ==
    LET free == { k \in 1..Len(list) : list[k].none }
    IN  [list EXCEPT ![CHOOSE k \in free : \A l \in free : k <= l] = transcription]

\* transcriptions[chunk_index-1] = transcription
Place(list, chunk_index, transcription) ==
    [list EXCEPT ![chunk_index] = transcription]

\* the loop going on whatever the chunk returned
GoOn(transcription) == TRUE

\* if transcription is not None
IsNotNone(transcription) == ~transcription.none

\* one round of "for future in as_completed(future_to_chunk)": a finished
\* future is yielded; its text is stored, or the function returns None and
\* the with block waits for the executor to shut down
CollectResult ==
    /\ pc = "as_completed"
    /\ \E i \in { x \in InState("done") : ~futures[x].yielded } :
          /\ futures' = [futures EXCEPT ![i].yielded = TRUE]
          /\ IF IsNotNone(futures[i].result)
                THEN /\ transcriptions' = Place(transcriptions, i, futures[i].result)
                     /\ pc' = pc
                ELSE /\ transcriptions' = transcriptions
                     /\ pc' = "shutdown"
    /\ UNCHANGED <<file1, file2, text1, text2, results, arg1, arg2, ret1, ret2>>
    /\ UNCHANGED <<toolVars, disk, chunk_files, processed_files, failed_files>>

\* every future was yielded: combined_transcription = " ".join(transcriptions)
JoinTranscriptions ==
    /\ pc = "as_completed"
    /\ \A i \in 1..Len(futures) : futures[i].yielded
    /\ ret2' = PyStr(Join([i \in 1..Len(transcriptions) |-> transcriptions[i].text],
                          << " " >>))
    /\ pc' = AfterParallel
    /\ UNCHANGED <<file1, file2, text1, text2, results, arg1, arg2, ret1>>
    /\ UNCHANGED <<toolVars, videoVars>>

\* return None inside the with block: ThreadPoolExecutor.__exit__ waits for
\* the tasks still queued or running, then the function returns
ShutdownExecutor ==
    /\ pc = "shutdown"
    /\ \A i \in 1..Len(futures) : futures[i].state = "done"
    /\ ret2' = PyNone
    /\ pc' = AfterParallel
    /\ UNCHANGED <<file1, file2, text1, text2, results, arg1, arg2, ret1>>
    /\ UNCHANGED <<toolVars, videoVars>>

\* cleanup_chunk_files(chunk_files); return transcription.  failing = 0: every
\* file is removed; failing = k: os.remove raises on the k-th file and the
\* except clause ends the loop
CleanupChunkFiles ==
    /\ pc = "cleanup_chunk_files"
    /\ \E failing \in 0..Len(chunk_files) :
          disk' = IF failing = 0 THEN disk \ Range(chunk_files)
                  ELSE disk \ { chunk_files[k] : k \in 1..(failing - 1) }
    /\ pc' = "returned"
    /\ UNCHANGED <<file1, file2, text1, text2, results, arg1, arg2, ret1, ret2>>
    /\ UNCHANGED <<toolVars, chunk_files, futures, transcriptions, processed_files, failed_files>>

NextChunks ==
    \/ CallTranscribeAudio
    \/ SplitAudioFile
    \/ SubmitChunks
    \/ StartChunk
    \/ FinishChunk
    \/ CollectResult
    \/ JoinTranscriptions
    \/ ShutdownExecutor
    \/ CleanupChunkFiles

SpecChunks == InitChunks /\ [][NextChunks]_vars

\* the chunk texts in chunk order, joined by single spaces
CombinedInOrder(n) == Join([i \in 1..n |-> ChunkText(i)], << " " >>)

\* C24: for every order in which the chunk transcriptions complete,
\* transcribe_audio_chunks_parallel combines them in chunk order (chunk 1,
\* chunk 2, ...), joined by single spaces.
C24_CombinedInChunkOrder ==
    /\ \A i \in 1..Len(transcriptions) :
          transcriptions[i] \in { PyNone, PyStr(ChunkText(i)) }
    /\ (pc \in { "cleanup_chunk_files", "returned" } /\ Len(futures) > 0 /\ ~ret2.none) =>
          ret2.text = CombinedInOrder(Len(futures))

\* three or more chunks came back as one text although the last chunk
\* completed first and the first chunk last
C24_Witness ==
    /\ pc = "returned"
    /\ Len(futures) >= MAX_WORKERS
    /\ ~ret2.none
    /\ futures[Len(futures)].rank = 1
    /\ futures[1].rank = Len(futures)

\* transcribe_audio_chunks_parallel was called and has returned
ParallelReturned ==
    /\ pc \in { "cleanup_chunk_files", "returned" }
    /\ arg2.entry = "transcribe_audio_chunks_parallel" \/ Len(futures) > 0

\* C25: if the transcription of any chunk fails, transcribe_audio_chunks_parallel
\* returns None, never a partial text; it also returns None for an empty
\* chunk list.
C25_NoneOnFailure ==
    ParallelReturned =>
        /\ chunk_files = << >> => ret2.none
        /\ (\E i \in 1..Len(futures) : futures[i].result.none) => ret2.none
        /\ ~ret2.none =>
              /\ \A i \in 1..Len(futures) :
                    futures[i].yielded /\ transcriptions[i] = PyStr(ChunkText(i))
              /\ ret2.text = Join([i \in 1..Len(futures) |-> ChunkText(i)], << " " >>)

\* the first chunk's text was already stored when another chunk failed, and
\* the call returned None
C25_Witness ==
    /\ pc = "returned"
    /\ arg2.entry = "transcribe_audio_chunks_parallel"
    /\ Len(futures) >= 2
    /\ transcriptions[1] = PyStr(ChunkText(1))
    /\ \E i \in 2..Len(futures) : futures[i].state = "done" /\ futures[i].result.none
    /\ ret2.none

\* C26: when transcribe_audio handles a file above the 25MB limit, every chunk
\* file created during the call has been deleted by the time the call
\* returns, whether splitting and transcription succeeded or failed.
C26_ChunkFilesCleanedUp ==
    (pc = "returned" /\ arg2.entry = "transcribe_audio" /\ arg1.file_size > max_size) =>
        disk = {}

(***************************************************************************)
(* video.py main(): the loop over the selected files.  Each round extracts *)
(* the audio, transcribes it and saves the transcription; what the three   *)
(* calls return is the environment's choice.                               *)
(***************************************************************************)
MaxSelected == 3

\* the video files offered to the user, by number
OfferedVideos == 1..2

\* what get_user_selection can return: the offered files in any order, a
\* file possibly more than once
Selections == UNION { [1..n -> OfferedVideos] : n \in 1..MaxSelected }

InitVideoMain ==
    /\ pc = "process_files"
    /\ arg1 \in Selections
    /\ arg2 = None
    /\ ret1 = << >>
    /\ ret2 = None
    /\ processed_files = << >>
    /\ failed_files = << >>
    /\ disk = {}
    /\ chunk_files = << >> /\ futures = << >> /\ transcriptions = << >>
    /\ file1 = None /\ file2 = None /\ text1 = None /\ text2 = None
    /\ results = None
    /\ ToolIdle

\* one round of "for i, video_file in enumerate(selected_files, 1)".  ret1
\* keeps what the calls of each round returned: audio_file, transcription,
\* and whether save_transcription wrote the file (it returns None otherwise)
ProcessFile ==
    /\ pc = "process_files"
    /\ Len(ret1) < Len(arg1)
    /\ LET video_file == arg1[Len(ret1) + 1]
       IN  \E audio_file \in BOOLEAN,
              transcription \in { PyNone, PyStr(<< >>), PyStr(ChunkText(1)) },
              output_path \in BOOLEAN :
              IF ~audio_file
              THEN \* extract_audio_from_video returned None
                   /\ transcription = PyNone /\ ~output_path
                   /\ failed_files' = Append(failed_files, video_file)
                   /\ ret1' = Append(ret1, [video_file |-> video_file, audio_file |-> FALSE,
                                            transcription |-> PyNone, saved |-> FALSE])
                   /\ UNCHANGED <<processed_files, disk>>
              ELSE IF transcription.none \/ transcription.text = << >>
              THEN \* if not transcription
                   /\ ~output_path
                   /\ failed_files' = Append(failed_files, video_file)
                   /\ ret1' = Append(ret1, [video_file |-> video_file, audio_file |-> TRUE,
                                            transcription |-> transcription, saved |-> FALSE])
                   /\ UNCHANGED <<processed_files, disk>>
              ELSE /\ disk' = IF output_path THEN disk \cup { video_file } ELSE disk
                   \* save_transcription's return value is not looked at
                   /\ processed_files' = Append(processed_files, video_file)
                   /\ ret1' = Append(ret1, [video_file |-> video_file, audio_file |-> TRUE,
                                            transcription |-> transcription,
                                            saved |-> output_path])
                   /\ UNCHANGED failed_files
    /\ UNCHANGED <<pc, file1, file2, text1, text2, results, arg1, arg2, ret2>>
    /\ UNCHANGED <<toolVars, chunk_files, futures, transcriptions>>

\* the loop is over: the summary is printed and main returns
PrintSummary ==
    /\ pc = "process_files"
    /\ Len(ret1) = Len(arg1)
    /\ pc' = "summary_printed"
    /\ UNCHANGED <<file1, file2, text1, text2, results, arg1, arg2, ret1, ret2>>
    /\ UNCHANGED <<toolVars, videoVars>>

NextVideoMain == ProcessFile \/ PrintSummary

SpecVideoMain == InitVideoMain /\ [][NextVideoMain]_vars

\* C30: in the processing loop of video.py every selected file ends in exactly
\* one of processed_files and failed_files, and a file is in processed_files
\* only if its audio was extracted, its transcription was non-empty, and
\* save_transcription wrote the transcription to disk.
C30_ProcessedMeansSaved ==
    pc = "summary_printed" =>
        /\ Len(processed_files) + Len(failed_files) = Len(arg1)
        /\ \A k \in 1..Len(arg1) :
              (\E i \in 1..Len(processed_files) : processed_files[i] = arg1[k])
                  # (\E i \in 1..Len(failed_files) : failed_files[i] = arg1[k])
        /\ \A i \in 1..Len(processed_files) :
              \E k \in 1..Len(ret1) :
                  /\ ret1[k].video_file = processed_files[i]
                  /\ ret1[k].audio_file
                  /\ ~ret1[k].transcription.none /\ ret1[k].transcription.text # << >>
                  /\ ret1[k].saved

=============================================================================
